---- MODULE Spec2Model ----
(***************************************************************************)
(* Multisig coordination protocol of wdk-multiple-sig-poc.                 *)
(*                                                                         *)
(* Spec        the proposal lifecycle (create / import / propose / sign /  *)
(*             execute) of the three storage-backed managers               *)
(*             (SafeMultisigEVM, BitcoinMultisig, SafeMultisigEVM4337)     *)
(*             sharing one MemoryStorageAdapter, one manager per signer.   *)
(*             sign() and execute() are split at their first await after   *)
(*             storage.getProposal(), so that managers interleave the way  *)
(*             the promises of the code do.                                *)
(* SpecCreate  one create() / import() / importMultisigInfo() call of each *)
(*             manager class on a fresh manager, over bounded inputs.      *)
(* SpecAsync   the lifecycle of SafeMultisigEVM4337 together with the      *)
(*             chain's later confirmation of a submitted user operation.   *)
(* SpecStore   the AutobaseStorageAdapter of three peers: connection and   *)
(*             registration, writer admission, appends to the local log,   *)
(*             replication, and the view Autobase materializes.            *)
(* SpecNet     SpecStore with connections that close, and with the         *)
(*             replication of what a connection carries taken to happen.   *)
(* SpecMem     the objects MemoryStorageAdapter stores and returns, by     *)
(*             reference, and what their holders do to them.               *)
(* SpecCap     the constructor's check of the storage object, and the      *)
(*             storage methods the manager's operations call.              *)
(* SpecImport  one import(address, ...) call of a wallet not yet deployed. *)
(* SpecOwners  addOwner / removeOwner / changeThreshold of every manager   *)
(*             class, and the proposals they store, on one wallet.         *)
(* SpecPoll    the confirmation polling of one execute() on the chain with *)
(*             asynchronous execution, fair to its own steps.              *)
(* SpecEquiv   a MemoryStorageAdapter and the AutobaseStorageAdapter of a  *)
(*             single peer under the same StorageAdapter calls.            *)
(* SpecWire    the connections to the bootstrap peer: the registration     *)
(*             message and the replication protocol on one connection.     *)
(***************************************************************************)
EXTENDS Integers, Sequences, FiniteSets, TLC

VARIABLES
    variant,     \* which manager class the signers run (fixed per behaviour)
    mgr,         \* per signer: this.address / this.owners / this.threshold / sdk handle
    multisigs,   \* MemoryStorageAdapter.multisigs : address -> info
    proposals,   \* MemoryStorageAdapter.proposals : proposalId -> proposal
    chain,       \* the chain: deployed wallets, per-wallet nonce, broadcasts
    pc,          \* per signer: position inside sign()/execute()
    snap,        \* per signer: the `proposal` local read by getProposal()
    res,         \* what the last sign()/execute() returned, or the last call that
                 \* changed the state
    cin,         \* SpecCreate: the input of the last create()/import() call
    cout,        \* SpecCreate: its outcome and the manager / storage after it
    rep,         \* SpecStore: the AutobaseStorageAdapter of every peer (local log,
                 \* replicated logs, materialized view) and the connections
    mem,         \* SpecMem: the objects of one process (MemoryStorageAdapter's Maps
                 \* and the objects its callers hold), by reference
    cap,         \* SpecCap: the storage object handed to a manager's constructor,
                 \* what the constructor did with it, and the last call's outcome
    own,         \* SpecOwners: one wallet on chain, its stored record, the managers
                 \* bound to it and the ownership-change proposals
    poll,        \* SpecPoll: one execute() on the asynchronous-execution chain, from
                 \* the submission to the bundler to its return
    eqv,         \* SpecEquiv: a MemoryStorageAdapter and the AutobaseStorageAdapter
                 \* of a single peer given the same calls, and what each returned
    net          \* SpecWire: one connection to the bootstrap peer, what was
                 \* written on it and what its one-shot handler did

vars == <<variant, mgr, multisigs, proposals, chain, pc, snap, res, cin, cout, rep, mem, cap, own, poll, eqv, net>>

protoVars == <<variant, mgr, multisigs, proposals, chain, pc, snap, res>>
createVars == <<cin, cout>>
repVars == <<rep>>
memVars == <<mem>>
capVars == <<cap>>
ownVars == <<own>>
pollVars == <<poll>>
eqVars == <<eqv>>
netVars == <<net>>

-----------------------------------------------------------------------------
(* Bounds of the model *)

\* longest signatures list the stored proposal may grow to
MaxSigs == 2
\* highest wallet nonce (number of executed transactions) followed
MaxNonce == 1

Signers == {"A", "B", "C"}
Intents == {"tx1"}
Variants == {"safe", "btc", "safe4337"}
OwnerLists == {<<"A", "B">>, <<"A", "B", "C">>}
\* thresholds passed to create(): one that every create() refuses and a valid one
ThresholdInputs == {0, 2}

-----------------------------------------------------------------------------
(* Helpers *)

Range(s) == {s[i] : i \in DOMAIN s}

\* number of entries of the signatures list made by signer x
Count(s, x) == Cardinality({i \in DOMAIN s : s[i] = x})

NoAddr == <<>>
NoId == [w |-> NoAddr, tx |-> "-", n |-> 0, by |-> "-"]
NoProposal == [id |-> NoId, multisigAddress |-> NoAddr, tx |-> "-", nonce |-> 0,
               signatures |-> <<>>, status |-> "none"]

\* calculateAddress / p2wsh address / protocolKit.getAddress(): a deterministic,
\* collision-free function of the owners list and the threshold
DeriveAddress(owners, threshold) == <<owners, threshold>>
AddrOwners(a) == a[1]
AddrThreshold(a) == a[2]

\* JS null as it behaves in `n < this.threshold` (null converts to 0)
NullThreshold == 0
\* BitcoinMultisig.create: at most 15 public keys in a P2WSH multisig script
BtcMaxOwners == 15

NoManager == [address |-> NoAddr, owners |-> <<>>, threshold |-> NullThreshold,
              ready |-> FALSE]

-----------------------------------------------------------------------------
(* create(): the validation each manager class performs before any effect *)

\* SafeMultisigEVM.create
SafeCreateCheck(owners, threshold, signer) ==
    IF Len(owners) < 2 THEN "ValidationError"
    ELSE IF threshold < 1 \/ threshold > Len(owners) THEN "ValidationError"
    ELSE IF signer \notin Range(owners) THEN "NotAnOwner"
    ELSE "ok"

\* BitcoinMultisig.create
BtcCreateCheck(owners, threshold, signer) ==
    IF Len(owners) < 2 THEN "ValidationError"
    ELSE IF Len(owners) > BtcMaxOwners THEN "ValidationError"
    ELSE IF threshold < 1 \/ threshold > Len(owners) THEN "ValidationError"
    ELSE IF signer \notin Range(owners) THEN "NotAnOwner"
    ELSE "ok"

\* SafeMultisigEVM4337.create
Safe4337CreateCheck(owners, threshold, signer) ==
    IF Len(owners) < 1 THEN "ValidationError"
    ELSE IF threshold < 1 \/ threshold > Len(owners) THEN "ValidationError"
    ELSE IF signer \notin Range(owners) THEN "NotAnOwner"
    ELSE "ok"

\* Safe4337Pack.init with a predicted-Safe configuration {owners, threshold,
\* saltNonce}: the SDK refuses an empty owners list and a threshold outside
\* 1..|owners|; it does not look at who the signer is.
PackInitCheck(owners, threshold) ==
    IF Len(owners) < 1 THEN "ValidationError"
    ELSE IF threshold < 1 \/ threshold > Len(owners) THEN "ValidationError"
    ELSE "ok"

\* SafeMultisigEVM4337Api.create: no check of its own, straight to Safe4337Pack.init
ApiCreateCheck(owners, threshold, signer) == PackInitCheck(owners, threshold)

CreateCheck(v, owners, threshold, signer) ==
    CASE v = "safe"     -> SafeCreateCheck(owners, threshold, signer)
      [] v = "btc"      -> BtcCreateCheck(owners, threshold, signer)
      [] v = "safe4337" -> Safe4337CreateCheck(owners, threshold, signer)
      [] v = "api"      -> ApiCreateCheck(owners, threshold, signer)

-----------------------------------------------------------------------------
(* MemoryStorageAdapter *)

\* multisigs.set(info.address, {...info})
MemSaveMultisigInfo(store, info) ==
    [a \in DOMAIN store \cup {info.address} |->
        IF a = info.address THEN info ELSE store[a]]

\* a store that keeps the record it already has under the id
MemSaveProposalIfAbsent(store, p) ==
    [i \in DOMAIN store \cup {p.id} |-> IF i \in DOMAIN store THEN store[i] ELSE p]

\* proposals.set(proposal.id, {...proposal, signatures: [...]}): replaces the record
MemSaveProposal(store, p) ==
    [i \in DOMAIN store \cup {p.id} |-> IF i = p.id THEN p ELSE store[i]]

\* proposals.get(id), null when absent
MemGetProposal(store, id) ==
    IF id \in DOMAIN store THEN store[id] ELSE NoProposal

\* Object.assign(proposal, update) when the proposal exists, nothing otherwise
MemUpdateProposalStatus(store, id, status) ==
    IF id \in DOMAIN store THEN [store EXCEPT ![id].status = status] ELSE store

\* proposal.signatures.push({...signature}) (the caller gets an error when absent)
MemAddSignature(store, id, signer) ==
    IF id \in DOMAIN store
    THEN [store EXCEPT ![id].signatures = Append(@, signer)]
    ELSE store

\* exportProposal / importProposal: JSON.stringify(proposal) and JSON.parse(text).

\* the value of a property that was assigned undefined (gasUsed of a receipt that
\* carries no actualGasUsed)
Undefined == "undefined"

\* the keys of a stored proposal in the order the object literals give them; the
\* execution metadata comes last (Object.assign in updateProposalStatus)
ProposalKeys == <<"id", "multisigAddress", "tx", "nonce", "signatures", "status", "gasUsed">>

\* the keys whose value can be undefined
OptionalKeys == {"gasUsed"}

\* obj[key] is something JSON has a text for
Serializable(obj, key) ==
    key \in DOMAIN obj /\ (key \in OptionalKeys => obj[key] # Undefined)

\* obj[key] as JavaScript reads it
Property(obj, key) == IF key \in DOMAIN obj THEN obj[key] ELSE Undefined

\* JSON.stringify(obj): the members "key": value in key order; a member whose
\* value is undefined is left out
JsonStringify(obj) ==
    LET keys == SelectSeq(ProposalKeys, LAMBDA k : Serializable(obj, k))
    IN  [i \in 1..Len(keys) |-> <<keys[i], obj[keys[i]]>>]

\* JSON.parse(text): an object with one property per member
JsonParse(text) ==
    [k \in {text[i][1] : i \in DOMAIN text} |->
        (CHOOSE m \in Range(text) : m[1] = k)[2]]

\* exportProposal(id) of a store that holds id
MemExportProposal(store, id) == JsonStringify(store[id])

\* an import that files the proposal as a new, pending one
MemImportProposalAsPending(store, text) ==
    MemSaveProposal(store, [JsonParse(text) EXCEPT !.status = "pending"])

\* importProposal(jsonData): saveProposal(JSON.parse(jsonData))
MemImportProposal(store, text) == MemSaveProposal(store, JsonParse(text))

-----------------------------------------------------------------------------
(* propose(): payload and proposal id *)

\* what every signer must reproduce byte for byte: wallet, intent and sequencing
UnsignedPayload(address, tx, nonce) == [w |-> address, tx |-> tx, n |-> nonce]

\* safeTxHash.slice(0, 18): a prefix of the digest of the unsigned Safe transaction
SafeProposalId(payload, signer) ==
    [w |-> payload.w, tx |-> payload.tx, n |-> payload.n, by |-> "-"]

\* safeOpHash.slice(0, 18): a prefix of the digest of the unsigned SafeOperation
Safe4337ProposalId(payload, signer) ==
    [w |-> payload.w, tx |-> payload.tx, n |-> payload.n, by |-> "-"]

\* sha256(psbt.toBase64()).slice(0, 16), taken after psbt.signInput(i, signerKeyPair):
\* the digest covers the proposer's partial signature
BtcProposalId(payload, signer) ==
    [w |-> payload.w, tx |-> payload.tx, n |-> payload.n, by |-> signer]

ProposalId(v, payload, signer) ==
    CASE v = "safe"     -> SafeProposalId(payload, signer)
      [] v = "btc"      -> BtcProposalId(payload, signer)
      [] v = "safe4337" -> Safe4337ProposalId(payload, signer)

\* the record propose() hands to storage.saveProposal
NewProposal(v, address, tx, nonce, signer) ==
    [id |-> ProposalId(v, UnsignedPayload(address, tx, nonce), signer),
     multisigAddress |-> address, tx |-> tx, nonce |-> nonce,
     signatures |-> <<signer>>, status |-> "pending"]

-----------------------------------------------------------------------------
(* sign() and execute(): the checks and the record written *)

\* a sign() that never finds its signer among the signatures
AlreadySignedNever(signatures, signer) == FALSE

\* proposal.signatures.some(sig => sig.signer === signer)
AlreadySigned(signatures, signer) == signer \in Range(signatures)

\* a sign() that writes its own signature in place of the list it read
SignedProposalAlone(p, signer) == [p EXCEPT !.signatures = <<signer>>]

\* {...proposal, signatures: [...proposal.signatures, {signer, ...}]}
SignedProposal(p, signer) == [p EXCEPT !.signatures = Append(@, signer)]

\* an execute() without the signature count check
ThresholdMetAlways(signatures, threshold) == TRUE

\* the negation of `proposal.signatures.length < this.threshold`
ThresholdMet(signatures, threshold) == ~(Len(signatures) < threshold)

\* sign(): SafeMultisigEVM4337 refuses a proposal that is not pending, the other two
\* classes do not look at the status
SignStatusOk(v, status) == v = "safe4337" => status = "pending"

\* the `if (!this.safeSdk)` / `if (!this.safe4337Pack)` guard of sign() and execute();
\* BitcoinMultisig has none
InitGuardOk(v, m) == v = "btc" \/ m.ready

\* what an already-signed proposal makes sign() do
AlreadySignedOutcome(v) == IF v = "btc" THEN "AlreadySigned" ELSE "noop"

\* sign(proposalId) of a manager m with proposal p read from storage: the error it
\* throws, the silent return, or "reading" when it goes on to sign and write
SignOutcome(v, m, p, signer) ==
    IF ~InitGuardOk(v, m) THEN "NotInitialized"
    ELSE IF p = NoProposal THEN "NotFound"
    ELSE IF ~SignStatusOk(v, p.status) THEN "AlreadyFinalized"
    ELSE IF AlreadySigned(p.signatures, signer) THEN AlreadySignedOutcome(v)
    ELSE "reading"

\* an execute() without the status check
ExecOutcomeAnyStatus(v, m, p) ==
    IF ~InitGuardOk(v, m) THEN "NotInitialized"
    ELSE IF p = NoProposal THEN "NotFound"
    ELSE IF ~ThresholdMet(p.signatures, m.threshold) THEN "InsufficientSignatures"
    ELSE "reading"

\* execute(proposalId) of a manager m with proposal p read from storage: the error it
\* throws, or "reading" when it goes on to the broadcast
ExecOutcome(v, m, p) ==
    IF ~InitGuardOk(v, m) THEN "NotInitialized"
    ELSE IF p = NoProposal THEN "NotFound"
    ELSE IF p.status # "pending" THEN "AlreadyFinalized"
    ELSE IF ~ThresholdMet(p.signatures, m.threshold) THEN "InsufficientSignatures"
    ELSE "reading"

-----------------------------------------------------------------------------
(* The chain, as far as the coordinator can observe it *)

\* wallets followed at once
MaxWallets == 1
\* proposals kept in the store at once
MaxProposals == 1
\* managers that are inside sign() or execute() at the same time
MaxInFlight == 2

\* the wallet contract / the script takes a transaction that carries signatures of at
\* least threshold different owners
ChainAccepts(a, signatures) ==
    Cardinality(Range(signatures) \cap Range(AddrOwners(a))) >= AddrThreshold(a)

\* the payload execute() hands to the chain with the collected signatures, when the
\* wallet's nonce is nonceNow: SafeMultisigEVM builds a new Safe transaction from
\* proposal.transaction (safeSdk.createTransaction reads the Safe's nonce);
\* SafeMultisigEVM4337 overwrites the rebuilt user operation with the persisted
\* safeOperationData; BitcoinMultisig decodes the persisted PSBT
ExecPayload(v, p, nonceNow) ==
    IF v = "safe"
    THEN UnsignedPayload(p.multisigAddress, p.tx, nonceNow)
    ELSE UnsignedPayload(p.multisigAddress, p.tx, p.nonce)

\* the payload the signatures of a proposal were made over (propose() and sign()
\* sign the persisted hash)
SignedPayload(p) == UnsignedPayload(p.multisigAddress, p.tx, p.nonce)

\* what the broadcast step of execute() can end in: the transaction goes through
\* ("ok"), the transport or the node refuses it ("throw"), and on the EVM chains the
\* transaction is mined but fails on-chain ("revert"); SafeMultisigEVM4337 can also see
\* no receipt within its polling attempts ("noreceipt")
ChainOutcomes(v) ==
    CASE v = "safe4337" -> {"ok", "revert", "noreceipt", "throw"}
      [] v = "safe"     -> {"ok", "revert", "throw"}
      [] v = "btc"      -> {"ok", "throw"}

\* the outcomes that reach execute() as a rejected await: a failed broadcast in every
\* class, and in SafeMultisigEVM also the reverted transaction, which
\* transactionResponse.wait() rejects on
Thrown(v, outcome) == outcome = "throw" \/ (v = "safe" /\ outcome = "revert")

\* the error execute() lets through to its caller
ExecError(outcome) == IF outcome = "throw" THEN "BroadcastError" ELSE "Reverted"

\* the status execute() passes to storage.updateProposalStatus for an outcome
ExecStatus(outcome) ==
    CASE outcome = "ok"        -> "executed"
      [] outcome = "revert"    -> "failed"
      [] outcome = "noreceipt" -> "submitted"

\* the result execute() returns: success flag and whether txHash is set
ExecResult(outcome) ==
    CASE outcome = "ok"        -> "success"
      [] outcome = "revert"    -> "reverted"
      [] outcome = "noreceipt" -> "submitted"

\* an execute() that marks the proposal failed when its broadcast is rejected
StatusAfterFailing(v, status, outcome) ==
    IF Thrown(v, outcome) THEN "failed" ELSE ExecStatus(outcome)

\* the stored status after the broadcast step: a rejected await leaves execute() before
\* storage.updateProposalStatus, anything else is written as ExecStatus
StatusAfter(v, status, outcome) ==
    IF Thrown(v, outcome) THEN status ELSE ExecStatus(outcome)

\* a returned result or a thrown error: operation, caller, proposal, outcome
Result(op, m, id, out) == [op |-> op, m |-> m, id |-> id, out |-> out]

NoResult == Result("none", "-", NoId, "-")

Info(address, owners, threshold, extra) ==
    [address |-> address, owners |-> owners, threshold |-> threshold, extra |-> extra]

Bound(a, owners, threshold) ==
    [address |-> a, owners |-> owners, threshold |-> threshold, ready |-> TRUE]

NoInfo == Info(NoAddr, <<>>, NullThreshold, FALSE)

\* SpecCreate: a call of create() / import() / importMultisigInfo() and what came of it
Call(op, v, owners, threshold, signer) ==
    [op |-> op, v |-> v, owners |-> owners, threshold |-> threshold, signer |-> signer]

Outcome(out, m, info) == [out |-> out, mgr |-> m, info |-> info]

NoCall == Call("none", "-", <<>>, 0, 0)

NoOutcome == Outcome("-", NoManager, NoInfo)


-----------------------------------------------------------------------------
(* AutobaseStorageAdapter: the log entries, the reducer and the view *)

\* entries appended to all local logs together
MaxEntries == 3

\* the nodes; each runs one AutobaseStorageAdapter for the signer of the same name
Peers == Signers

\* the peer constructed without config.bootstrapKey: it creates the Autobase
Bootstrap == "A"

\* `!this.bootstrapKey`
HasBootstrapKey(p) == p # Bootstrap

\* the wallet and the proposal the peers coordinate on
StoreWallet == DeriveAddress(<<"A", "B", "C">>, 2)
StoreInfo == Info(StoreWallet, AddrOwners(StoreWallet), AddrThreshold(StoreWallet), FALSE)
StoreProposal(signer) == NewProposal("safe", StoreWallet, "tx1", 0, signer)
StoreId == StoreProposal("A").id

\* the value handed to base.append(): type and the fields that type carries
Op(type, info, proposal, proposalId, signer, status, peer) ==
    [type |-> type, info |-> info, proposal |-> proposal, proposalId |-> proposalId,
     signer |-> signer, status |-> status, peer |-> peer]

SaveMultisigInfoOp(info) == Op("SAVE_MULTISIG_INFO", info, NoProposal, NoId, "-", "-", "-")
SaveProposalOp(p) == Op("SAVE_PROPOSAL", NoInfo, p, NoId, "-", "-", "-")
AddSignatureOp(id, signer) == Op("ADD_SIGNATURE", NoInfo, NoProposal, id, signer, "-", "-")
UpdateStatusOp(id, status) == Op("UPDATE_STATUS", NoInfo, NoProposal, id, "-", status, "-")
AddWriterOp(peer) == Op("ADD_WRITER", NoInfo, NoProposal, NoId, "-", "-", peer)

\* the operations of every type over the wallet, the proposal and the peers
Ops ==
    {SaveMultisigInfoOp(StoreInfo)}
        \cup {SaveProposalOp(StoreProposal(s)) : s \in Signers}
        \cup {AddSignatureOp(StoreId, s) : s \in Signers}
        \cup {UpdateStatusOp(StoreId, st) : st \in {"executed", "rejected"}}
        \cup {AddWriterOp(q) : q \in Peers}

\* the Hyperbee: the keys multisig:<address> and proposal:<id>
EmptyView == [multisigs |-> <<>>, proposals |-> <<>>]

\* _handleOperation(op, view, base), the part that writes the view
HandleOperation(view, op) ==
    CASE op.type = "SAVE_MULTISIG_INFO" ->
            [view EXCEPT !.multisigs =
                [a \in DOMAIN @ \cup {op.info.address} |->
                    IF a = op.info.address THEN op.info ELSE @[a]]]
      [] op.type = "SAVE_PROPOSAL" ->
            [view EXCEPT !.proposals =
                [i \in DOMAIN @ \cup {op.proposal.id} |->
                    IF i = op.proposal.id THEN op.proposal ELSE @[i]]]
      [] op.type = "ADD_SIGNATURE" ->
            IF op.proposalId \in DOMAIN view.proposals
            THEN [view EXCEPT !.proposals[op.proposalId].signatures =
                                    Append(@, op.signer)]
            ELSE view
      [] op.type = "UPDATE_STATUS" ->
            IF op.proposalId \in DOMAIN view.proposals
            THEN [view EXCEPT !.proposals[op.proposalId].status = op.status]
            ELSE view
      [] op.type = "ADD_WRITER" -> view

\* _handleOperation(op, view, base), the part that changes the writers:
\* base.addWriter(writerKey) for ADD_WRITER, nothing for the other types
HandleWriters(writers, op) ==
    IF op.type = "ADD_WRITER" THEN writers \cup {op.peer} ELSE writers

\* a log entry: who appended it, the operation, and how much of every log the
\* appender had when it appended (what the entry causally follows)
Entry(by, op, clock) == [by |-> by, op |-> op, clock |-> clock]

NoLengths == [w \in Peers |-> 0]

\* what Autobase holds for a peer: the view, the writers of the system, and the
\* entries it has applied, in order, as <<writer, index>>
Base(view, writers, applied) == [view |-> view, writers |-> writers, applied |-> applied]

\* a new Autobase: an empty view, the bootstrap's local core as the only writer
Genesis == Base(EmptyView, {Bootstrap}, <<>>)

\* the first of a set of peers in the order of their keys
FirstPeer(ps) ==
    CHOOSE w \in ps : \A u \in ps : (u = w) \/ (w = "A") \/ (w = "B" /\ u = "C")

\* Autobase's linearization of the entries a peer has (the first sn[w] entries of
\* every log lg[w]) through apply(): an entry is applied when its writer is a writer
\* of the system and everything it follows has been applied; among those that can
\* be applied the order is fixed by the writers' keys. The order depends on the set
\* of entries only.
RECURSIVE Linearize(_, _, _, _)
Linearize(lg, sn, done, base) ==
    LET ready == {w \in Peers :
                    /\ done[w] < sn[w]
                    /\ w \in base.writers
                    /\ \A u \in Peers : lg[w][done[w] + 1].clock[u] <= done[u]}
    IN  IF ready = {} THEN base
        ELSE LET w == FirstPeer(ready)
                 e == lg[w][done[w] + 1]
                 after == <<[done EXCEPT ![w] = @ + 1],
                            Base(HandleOperation(base.view, e.op),
                                 HandleWriters(base.writers, e.op),
                                 Append(base.applied, <<w, done[w] + 1>>))>>
             IN  CHOOSE b \in {Linearize(lg, sn, n[1], n[2]) : n \in {after}} : TRUE

\* getProposal(proposalId): this.base.view.get('proposal:' + id), null when absent
AutobaseGetProposal(base, id) == MemGetProposal(base.view.proposals, id)

\* exportProposal(proposalId) of a peer whose view holds the proposal
AutobaseExportProposal(base, id) == JsonStringify(AutobaseGetProposal(base, id))

\* an adapter that applies every entry to its view as the entry arrives
MaterializeOnArrival(base, lg, sn, w) ==
    Base(HandleOperation(base.view, lg[w][sn[w]].op),
         HandleWriters(base.writers, lg[w][sn[w]].op),
         Append(base.applied, <<w, sn[w]>>))

\* the Autobase of a peer after entry sn[w] of writer w reached it: the view is
\* rebuilt along the linearization of all it has (_applyOperations is Autobase's
\* apply callback, the view is the one Autobase opened through _createView)
Materialize(base, lg, sn, w) == Linearize(lg, sn, NoLengths, Genesis)

\* a peer that takes itself for writable whatever the system says
WritableAlways(base, p) == TRUE

\* canWrite(): this.base.writable, the local core is a writer of the system
Writable(base, p) == p \in base.writers

\* every peer has run init(); nobody is connected yet
NoReplication ==
    [logs  |-> [p \in Peers |-> <<>>],
     seen  |-> [p \in Peers |-> NoLengths],
     base  |-> [p \in Peers |-> Genesis],
     links |-> {},
     regs  |-> {}]

-----------------------------------------------------------------------------
(* MemoryStorageAdapter by reference: the objects of one JavaScript process. An
   object is a heap cell; a field that holds an object or an array holds its
   reference, and an object spread or an array spread copies one level. *)

\* heap cells in SpecMem
MaxObjects == 9

\* the object kinds: a proposal, its transaction, a signatures entry, a wallet
\* record, the signatures array (of references) and the owners array (of strings)
ProposalObj(status, transaction, signatures) ==
    [kind |-> "proposal", status |-> status, transaction |-> transaction,
     signatures |-> signatures]
TxObj(to) == [kind |-> "tx", to |-> to]
SigObj(signer) == [kind |-> "sig", signer |-> signer]
InfoObj(owners, threshold) == [kind |-> "info", owners |-> owners, threshold |-> threshold]
ArrayObj(items) == [kind |-> "array", items |-> items]
OwnersObj(items) == [kind |-> "owners", items |-> items]

\* no reference (Map.get() of an absent key)
NoRef == 0

\* a new process: an empty heap, empty Maps, the caller holds nothing
NoObjects == [heap |-> <<>>, proposal |-> NoRef, multisig |-> NoRef, held |-> {}]

\* the references stored in the fields of a cell
RefsOf(o) ==
    CASE o.kind = "proposal" -> {o.transaction, o.signatures}
      [] o.kind = "info" -> {o.owners}
      [] o.kind = "array" -> Range(o.items)
      [] OTHER -> {}

\* everything a holder of the references rs can reach and so mutate in place
RECURSIVE ReachableFrom(_, _)
ReachableFrom(heap, rs) ==
    LET more == rs \cup UNION {RefsOf(heap[r]) : r \in rs}
    IN  IF more = rs THEN rs ELSE ReachableFrom(heap, more)

\* {...proposal, signatures: [...proposal.signatures]} of the cell r, allocated at
\* the end of the heap: a new array with the same entries, a new object with the
\* same field values, so the same transaction reference
CopyProposal(heap, r) ==
    heap \o <<ArrayObj(heap[heap[r].signatures].items),
              [heap[r] EXCEPT !.signatures = Len(heap) + 1]>>

\* {...info}: a new object with the same field values, so the same owners array
CopyInfo(heap, r) == heap \o <<heap[r]>>

\* what getProposal(id) gives to read: status, transaction.to and the signers of
\* the signatures entries, followed through the references
ReadProposal(heap, r) ==
    IF r = NoRef THEN NoProposal
    ELSE [status |-> heap[r].status,
          to |-> heap[heap[r].transaction].to,
          signers |-> [i \in DOMAIN heap[heap[r].signatures].items |->
                          heap[heap[heap[r].signatures].items[i]].signer]]

\* what getMultisigInfo(address) gives to read
ReadInfo(heap, r) ==
    IF r = NoRef THEN NoInfo
    ELSE [owners |-> heap[heap[r].owners].items, threshold |-> heap[r].threshold]

\* what the store returns from now on
StoreReturns(m) ==
    [proposal |-> ReadProposal(m.heap, m.proposal),
     multisig |-> ReadInfo(m.heap, m.multisig)]

-----------------------------------------------------------------------------
(* The storage a manager is constructed with, as the set of methods it has *)

\* the operations of the StorageAdapter interface
StorageMethods ==
    {"init", "close", "saveMultisigInfo", "getMultisigInfo", "listMultisigsByUser",
     "listAllMultisigs", "saveProposal", "getProposal", "updateProposalStatus",
     "listProposals", "listProposalsByUser", "addSignature", "exportProposal",
     "importProposal", "exportMultisigInfo", "importMultisigInfo"}

\* requiredMethods of _isValidStorage
RequiredMethods ==
    {"init", "close", "saveMultisigInfo", "getMultisigInfo", "saveProposal",
     "getProposal", "updateProposalStatus", "addSignature", "exportProposal",
     "importProposal"}

\* _isValidStorage(storage): every required method is a function
IsValidStorage(storage) == RequiredMethods \subseteq storage

\* the operations of a manager that reach the storage
ManagerOps == {"create", "import", "propose", "sign", "execute", "getPendingProposals"}

\* the storage methods an operation of a manager calls
StorageCalls(op) ==
    CASE op = "create" -> {"saveMultisigInfo"}
      [] op = "import" -> {"getMultisigInfo", "saveMultisigInfo"}
      [] op = "propose" -> {"saveProposal"}
      [] op = "sign" -> {"getProposal", "saveProposal"}
      [] op = "execute" -> {"getProposal", "updateProposalStatus", "saveMultisigInfo"}
      [] op = "getPendingProposals" -> {"listProposals"}

\* what a call on the manager ends with, as far as the storage's methods decide
CallOutcome(storage, op) ==
    IF StorageCalls(op) \subseteq storage THEN "ok" ELSE "is not a function"

\* no manager yet
NotConstructed == [storage |-> {}, state |-> "none", op |-> "-", outcome |-> "-"]

\* the wallet as the chain holds it
OnChain(owners, threshold, nonce) ==
    [owners |-> owners, threshold |-> threshold, nonce |-> nonce]

\* the state of SpecOwners outside SpecOwners
NoOwners == [v |-> "-", mgr |-> <<>>, multisigs |-> <<>>, proposals |-> <<>>,
             wallet |-> OnChain(<<>>, 0, 0), by |-> "-", out |-> "-"]

\* no receipt (null)
NoReceipt == "none"

\* an execute() of class v after its checks: where it is, the polling attempts made,
\* the receipt it holds, the stored status of the proposal and what it returned
Polling(v, at, attempts, receipt, status, result) ==
    [v |-> v, pc |-> at, attempts |-> attempts, receipt |-> receipt,
     status |-> status, result |-> result]

NoPolling == Polling("-", "idle", 0, NoReceipt, "-", "-")

\* SpecEquiv: what a storage call gave its caller: nothing (a resolved promise of
\* undefined), a value, or a rejection
Obs(kind, val) == [kind |-> kind, val |-> val]
Void == Obs("void", <<>>)
Rejected == Obs("throw", <<>>)
NoObs == Obs("none", <<>>)

\* SpecEquiv: the two Maps of a new MemoryStorageAdapter, with the order in which
\* their keys were first set (the order a Map iterates in)
NoMaps == [multisigs |-> <<>>, morder |-> <<>>, proposals |-> <<>>, porder |-> <<>>]

NoEquiv == [mem |-> NoMaps, auto |-> NoReplication, writes |-> 0,
            out |-> [mem |-> NoObs, auto |-> NoObs]]

\* SpecWire: the peers constructed with the bootstrap's key
Joiners == Peers \ {Bootstrap}

\* SpecWire: what one conn.write() puts on a connection, delivered as one 'data'
\* event: the JSON text of a REGISTER_NODE message, or bytes of the replication
\* protocol
Chunk(kind, nodeId) == [kind |-> kind, nodeId |-> nodeId]
NoChunk == Chunk("none", "-")

\* SpecWire: the connection between the bootstrap and joiner q as the bootstrap
\* has it: what the joiner wrote, how much of it was emitted, the state of the
\* once('data') handler, the chunk it was called with, and the chunks the
\* replication protocol attached by store.replicate(conn) was handed
NoConn == [open |-> FALSE, sent |-> <<>>, read |-> 0, handler |-> "none", got |-> NoChunk,
           fed |-> {}]
NoWire == [q \in Joiners |-> NoConn]

-----------------------------------------------------------------------------
(* Spec: initial state and create / import *)

Init ==
    /\ variant \in Variants
    /\ mgr = [s \in Signers |-> NoManager]
    /\ multisigs = <<>>
    /\ proposals = <<>>
    /\ chain = [nonce |-> <<>>, deployed |-> {}, sent |-> {}]
    /\ pc = [s \in Signers |-> "idle"]
    /\ snap = [s \in Signers |-> NoProposal]
    /\ res = NoResult
    /\ cin = NoCall
    /\ cout = NoOutcome
    /\ rep = NoReplication
    /\ mem = NoObjects
    /\ cap = NotConstructed
    /\ own = NoOwners
    /\ poll = NoPolling
    /\ eqv = NoEquiv
    /\ net = NoWire

Wallets == DOMAIN chain.nonce

InFlight == {s \in Signers : pc[s] # "idle"}

\* the ids callers pass: the stored ones, and an unknown one while the store is empty
KnownIds == IF proposals = <<>> THEN {NoId} ELSE DOMAIN proposals

\* create(owners, threshold) of the manager of signer m; a refused call changes nothing
Create(m, owners, threshold) ==
    /\ pc[m] = "idle"
    /\ LET a == DeriveAddress(owners, threshold)
       IN  IF CreateCheck(variant, owners, threshold, m) = "ok"
           THEN /\ Cardinality(Wallets \cup {a}) <= MaxWallets
                /\ mgr' = [mgr EXCEPT ![m] = Bound(a, owners, threshold)]
                /\ multisigs' = MemSaveMultisigInfo(multisigs,
                                    Info(a, owners, threshold, variant # "safe"))
                /\ chain' = [chain EXCEPT
                                !.nonce = [w \in Wallets \cup {a} |->
                                             IF w \in Wallets THEN chain.nonce[w] ELSE 0],
                                !.deployed = IF variant = "safe" THEN @ \cup {a} ELSE @]
                /\ res' = Result("create", m, NoId, "ok")
           ELSE UNCHANGED <<mgr, multisigs, chain, res>>
    /\ UNCHANGED <<variant, proposals, pc, snap, createVars, repVars, memVars, capVars, ownVars, pollVars, eqVars, netVars>>

\* SafeMultisigEVM.import(address): owners and threshold are read from the deployed Safe
SafeImport(m, a) ==
    /\ variant = "safe"
    /\ pc[m] = "idle"
    /\ a \in chain.deployed
    /\ mgr' = [mgr EXCEPT ![m] = Bound(a, AddrOwners(a), AddrThreshold(a))]
    /\ multisigs' = MemSaveMultisigInfo(multisigs,
                        Info(a, AddrOwners(a), AddrThreshold(a), FALSE))
    /\ res' = Result("import", m, NoId, "ok")
    /\ UNCHANGED <<variant, proposals, chain, pc, snap, createVars, repVars, memVars, capVars, ownVars, pollVars, eqVars, netVars>>

\* SafeMultisigEVM4337.import(address): from the chain when deployed, otherwise from
\* the stored info, whose predicted address must be the requested one
Safe4337Import(m, a) ==
    /\ variant = "safe4337"
    /\ pc[m] = "idle"
    /\ a \in Wallets
    /\ IF a \in chain.deployed
       THEN /\ mgr' = [mgr EXCEPT ![m] = Bound(a, AddrOwners(a), AddrThreshold(a))]
            /\ multisigs' = MemSaveMultisigInfo(multisigs,
                    Info(a, AddrOwners(a), AddrThreshold(a),
                         a \in DOMAIN multisigs /\ multisigs[a].extra))
            /\ res' = Result("import", m, NoId, "ok")
       ELSE IF a \notin DOMAIN multisigs \/ ~multisigs[a].extra
       THEN UNCHANGED <<mgr, multisigs, res>>
       ELSE IF DeriveAddress(multisigs[a].owners, multisigs[a].threshold) # a
       THEN UNCHANGED <<mgr, multisigs, res>>
       ELSE /\ mgr' = [mgr EXCEPT ![m] = Bound(a, multisigs[a].owners,
                                               multisigs[a].threshold)]
            /\ multisigs' = MemSaveMultisigInfo(multisigs,
                    Info(a, multisigs[a].owners, multisigs[a].threshold, TRUE))
            /\ res' = Result("import", m, NoId, "ok")
    /\ UNCHANGED <<variant, proposals, chain, pc, snap, createVars, repVars, memVars, capVars, ownVars, pollVars, eqVars, netVars>>

\* BitcoinMultisig.import(address, witnessScript): the script is the argument or the
\* stored one; threshold and owners are decoded from it and assigned to the manager
\* before the signer is looked up in the owners
BtcImport(m, a, given) ==
    /\ variant = "btc"
    /\ pc[m] = "idle"
    /\ a \in Wallets
    /\ IF ~given /\ (a \notin DOMAIN multisigs \/ ~multisigs[a].extra)
       THEN UNCHANGED <<mgr, multisigs, res>>
       ELSE LET script == IF given THEN a
                          ELSE DeriveAddress(multisigs[a].owners, multisigs[a].threshold)
            IN  /\ mgr' = [mgr EXCEPT ![m] = Bound(a, AddrOwners(script),
                                                   AddrThreshold(script))]
                /\ IF m \in Range(AddrOwners(script))
                   THEN /\ multisigs' = MemSaveMultisigInfo(multisigs,
                                Info(a, AddrOwners(script), AddrThreshold(script), TRUE))
                        /\ res' = Result("import", m, NoId, "ok")
                   ELSE /\ res' = Result("import", m, NoId, "NotAnOwner")
                        /\ UNCHANGED multisigs
    /\ UNCHANGED <<variant, proposals, chain, pc, snap, createVars, repVars, memVars, capVars, ownVars, pollVars, eqVars, netVars>>

-----------------------------------------------------------------------------
(* Spec: propose / sign / execute *)

\* propose(transaction): build the payload at the wallet's current nonce, sign it,
\* derive the id and save the proposal with the proposer's signature alone; a manager
\* that was never initialised throws and changes nothing
Propose(m, tx) ==
    /\ pc[m] = "idle"
    /\ IF mgr[m].address = NoAddr \/ ~mgr[m].ready
       THEN UNCHANGED <<proposals, res>>
       ELSE LET p == NewProposal(variant, mgr[m].address, tx,
                                 chain.nonce[mgr[m].address], m)
            IN  /\ Cardinality(DOMAIN proposals \cup {p.id}) <= MaxProposals
                /\ proposals' = MemSaveProposal(proposals, p)
                /\ res' = Result("propose", m, p.id, "ok")
    /\ UNCHANGED <<variant, mgr, multisigs, chain, pc, snap, createVars, repVars, memVars, capVars, ownVars, pollVars, eqVars, netVars>>

\* sign(proposalId) up to its first await after storage.getProposal: the checks
SignRead(m, id) ==
    /\ pc[m] = "idle"
    /\ LET p == MemGetProposal(proposals, id)
           out == SignOutcome(variant, mgr[m], p, m)
       IN  IF out = "reading"
           THEN /\ Len(p.signatures) < MaxSigs
                /\ Cardinality(InFlight) < MaxInFlight
                /\ pc' = [pc EXCEPT ![m] = "sign"]
                /\ snap' = [snap EXCEPT ![m] = p]
                /\ UNCHANGED res
           ELSE /\ res' = Result("sign", m, id, out)
                /\ UNCHANGED <<pc, snap>>
    /\ UNCHANGED <<variant, mgr, multisigs, proposals, chain, createVars, repVars, memVars, capVars, ownVars, pollVars, eqVars, netVars>>

\* the rest of sign(): storage.saveProposal of the record read, with one more signature
SignWrite(m) ==
    /\ pc[m] = "sign"
    /\ proposals' = MemSaveProposal(proposals, SignedProposal(snap[m], m))
    /\ pc' = [pc EXCEPT ![m] = "idle"]
    /\ snap' = [snap EXCEPT ![m] = NoProposal]
    /\ res' = Result("sign", m, snap[m].id, "signed")
    /\ UNCHANGED <<variant, mgr, multisigs, chain, createVars, repVars, memVars, capVars, ownVars, pollVars, eqVars, netVars>>

\* execute(proposalId) up to the broadcast: initialisation, existence, status, threshold
ExecRead(m, id) ==
    /\ pc[m] = "idle"
    /\ LET p == MemGetProposal(proposals, id)
           out == ExecOutcome(variant, mgr[m], p)
       IN  IF out = "reading"
           THEN /\ Cardinality(InFlight) < MaxInFlight
                /\ pc' = [pc EXCEPT ![m] = "exec"]
                /\ snap' = [snap EXCEPT ![m] = p]
                /\ UNCHANGED res
           ELSE /\ res' = Result("execute", m, id, out)
                /\ UNCHANGED <<pc, snap>>
    /\ UNCHANGED <<variant, mgr, multisigs, proposals, chain, createVars, repVars, memVars, capVars, ownVars, pollVars, eqVars, netVars>>

\* the broadcast of execute() and what follows it: a rejected await leaves storage
\* alone, any other outcome goes to storage.updateProposalStatus. The chain takes a
\* transaction only at the wallet's current nonce, with enough owner signatures made
\* over the payload it is handed; a transaction that reverts leaves the Safe's
\* nonce where it was.
ExecFinish(m, outcome) ==
    /\ pc[m] = "exec"
    /\ outcome \in ChainOutcomes(variant)
    /\ LET p == snap[m]
           a == p.multisigAddress
           mined == outcome # "noreceipt" /\ ~Thrown(variant, outcome)
       IN  IF outcome = "throw"
           THEN /\ res' = Result("execute", m, p.id, ExecError(outcome))
                /\ proposals' = MemUpdateProposalStatus(proposals, p.id,
                                    StatusAfter(variant, proposals[p.id].status, outcome))
                /\ UNCHANGED <<chain, multisigs>>
           ELSE /\ ExecPayload(variant, p, chain.nonce[a]).n = chain.nonce[a]
                /\ ExecPayload(variant, p, chain.nonce[a]) = SignedPayload(p)
                /\ ChainAccepts(a, p.signatures)
                /\ mined => chain.nonce[a] < MaxNonce
                /\ chain' = [chain EXCEPT
                                !.sent = @ \cup {p.id},
                                !.nonce[a] = IF mined THEN @ + 1 ELSE @,
                                !.deployed = IF mined THEN @ \cup {a} ELSE @]
                /\ proposals' = MemUpdateProposalStatus(proposals, p.id,
                                    StatusAfter(variant, proposals[p.id].status, outcome))
                /\ multisigs' = IF variant = "safe4337" /\ mined
                                THEN MemSaveMultisigInfo(multisigs,
                                        Info(mgr[m].address, mgr[m].owners,
                                             mgr[m].threshold, FALSE))
                                ELSE multisigs
                /\ res' = Result("execute", m, p.id,
                                 IF Thrown(variant, outcome) THEN ExecError(outcome)
                                 ELSE ExecResult(outcome))
    /\ pc' = [pc EXCEPT ![m] = "idle"]
    /\ snap' = [snap EXCEPT ![m] = NoProposal]
    /\ UNCHANGED <<variant, mgr, createVars, repVars, memVars, capVars, ownVars, pollVars, eqVars, netVars>>

-----------------------------------------------------------------------------
(* Spec: the storage operations any holder of the store can call directly *)

\* storage.addSignature(proposalId, {signer, ...})
AddSignature(id, signer) ==
    /\ id \in DOMAIN proposals
    /\ Len(proposals[id].signatures) < MaxSigs
    /\ proposals' = MemAddSignature(proposals, id, signer)
    /\ res' = Result("addSignature", signer, id, "ok")
    /\ UNCHANGED <<variant, mgr, multisigs, chain, pc, snap, createVars, repVars, memVars, capVars, ownVars, pollVars, eqVars, netVars>>

\* storage.updateProposalStatus(proposalId, {status: 'rejected'}): the one status the
\* interface documents that no manager sets
UpdateProposalStatus(id, status) ==
    /\ id \in DOMAIN proposals
    /\ proposals' = MemUpdateProposalStatus(proposals, id, status)
    /\ res' = Result("updateProposalStatus", "-", id, "ok")
    /\ UNCHANGED <<variant, mgr, multisigs, chain, pc, snap, createVars, repVars, memVars, capVars, ownVars, pollVars, eqVars, netVars>>

-----------------------------------------------------------------------------

Next ==
    \/ \E m \in Signers, owners \in OwnerLists, t \in ThresholdInputs :
            Create(m, owners, t)
    \/ \E m \in Signers, a \in Wallets : SafeImport(m, a)
    \/ \E m \in Signers, a \in Wallets : Safe4337Import(m, a)
    \/ \E m \in Signers, a \in Wallets, given \in BOOLEAN : BtcImport(m, a, given)
    \/ \E m \in Signers, tx \in Intents : Propose(m, tx)
    \/ \E m \in Signers, id \in KnownIds : SignRead(m, id)
    \/ \E m \in Signers : SignWrite(m)
    \/ \E m \in Signers, id \in KnownIds : ExecRead(m, id)
    \/ \E m \in Signers, o \in {"ok", "revert", "noreceipt", "throw"} : ExecFinish(m, o)
    \/ \E id \in DOMAIN proposals, s \in Signers : AddSignature(id, s)
    \/ \E id \in DOMAIN proposals : UpdateProposalStatus(id, "rejected")

Spec == Init /\ [][Next]_vars

-----------------------------------------------------------------------------
(* SpecAsync: the lifecycle on the asynchronous-execution chain (SafeMultisigEVM4337),
   with the chain's own step: a user operation the bundler took, and for which
   execute() gave up polling, is included in a block later on. *)

InitAsync == Init /\ variant = "safe4337"

\* the ids proposals can get in SpecAsync
AsyncIds ==
    {Safe4337ProposalId(UnsignedPayload(DeriveAddress(o, t), tx, n), "-") :
        o \in OwnerLists, t \in ThresholdInputs \ {0}, tx \in Intents, n \in 0..MaxNonce}

\* the user operation of proposal `id` is included: from now on
\* getUserOperationReceipt(userOpHash) has a receipt. No manager is inside execute()
\* for it any more, and nothing else in the program listens for it.
ChainConfirm(id) ==
    /\ id \in chain.sent
    /\ chain.nonce[id.w] = id.n
    /\ chain.nonce[id.w] < MaxNonce
    /\ chain' = [chain EXCEPT !.nonce[id.w] = @ + 1, !.deployed = @ \cup {id.w}]
    /\ UNCHANGED <<variant, mgr, multisigs, proposals, pc, snap, res, createVars, repVars, memVars, capVars, ownVars, pollVars, eqVars, netVars>>

NextAsync ==
    \/ \E m \in Signers, owners \in OwnerLists, t \in ThresholdInputs :
            Create(m, owners, t)
    \/ \E m \in Signers, a \in Wallets : Safe4337Import(m, a)
    \/ \E m \in Signers, tx \in Intents : Propose(m, tx)
    \/ \E m \in Signers, id \in KnownIds : SignRead(m, id)
    \/ \E m \in Signers : SignWrite(m)
    \/ \E m \in Signers, id \in KnownIds : ExecRead(m, id)
    \/ \E m \in Signers, o \in {"ok", "revert", "noreceipt", "throw"} : ExecFinish(m, o)
    \/ \E id \in AsyncIds : ChainConfirm(id)

\* the chain does include what the bundler accepted; callers are not obliged to call
SpecAsync ==
    InitAsync /\ [][NextAsync]_vars /\ WF_vars(\E id \in AsyncIds : ChainConfirm(id))

-----------------------------------------------------------------------------
(* SpecStore: three peers, each with its own AutobaseStorageAdapter. *)

InitStore == Init /\ variant = "safe"

\* entries in all logs together
Entries == {<<w, i>> : w \in Peers, i \in 1..MaxEntries}

TotalEntries(lg) == Cardinality({e \in Entries : e[2] <= Len(lg[e[1]])})

\* how many entries of every writer a peer has applied
AppliedLengths(base) ==
    [u \in Peers |-> Cardinality({i \in 1..Len(base.applied) : base.applied[i][1] = u})]

\* an append that reaches the local log only: the view is left to replication
AppendToLog(r, q, op) ==
    LET lg == [r.logs EXCEPT ![q] = Append(@, Entry(q, op, AppliedLengths(r.base[q])))]
        sn == [r.seen[q] EXCEPT ![q] = @ + 1]
    IN  [r EXCEPT !.logs = lg,
                  !.seen[q] = sn]

\* this.base.append(op) followed by this.base.update() at peer q: the entry goes to
\* q's local log, after everything q has applied, and q's view is brought up to date
AppendTo(r, q, op) ==
    LET lg == [r.logs EXCEPT ![q] = Append(@, Entry(q, op, AppliedLengths(r.base[q])))]
        sn == [r.seen[q] EXCEPT ![q] = @ + 1]
    IN  [r EXCEPT !.logs = lg,
                  !.seen[q] = sn,
                  !.base[q] = Materialize(r.base[q], lg, sn, q)]

\* a storage call of peer q that appends op: base.append() throws on a peer that is
\* not writable, and nothing changes
StoreCall(q, op) ==
    /\ TotalEntries(rep.logs) < MaxEntries
    /\ IF Writable(rep.base[q], q)
       THEN rep' = AppendTo(rep, q, op)
       ELSE UNCHANGED rep
    /\ UNCHANGED <<protoVars, createVars, memVars, capVars, ownVars, pollVars, eqVars, netVars>>

\* saveMultisigInfo(info)
AutobaseSaveMultisigInfo(q, info) == StoreCall(q, SaveMultisigInfoOp(info))

\* saveProposal(proposal), as propose() of q's manager calls it
AutobaseSaveProposal(q, p) == StoreCall(q, SaveProposalOp(p))

\* addSignature(proposalId, signature), with the signature of q's signer
AutobaseAddSignature(q, id, signer) == StoreCall(q, AddSignatureOp(id, signer))

\* updateProposalStatus(proposalId, update)
AutobaseUpdateProposalStatus(q, id, status) == StoreCall(q, UpdateStatusOp(id, status))

\* swarm.on('connection'): p and q find each other on the discovery key; the stores
\* replicate over the connection and each side writes its REGISTER_NODE message
Connect(p, q) ==
    /\ p # q
    /\ {p, q} \notin rep.links
    /\ rep' = [rep EXCEPT !.links = @ \cup {{p, q}},
                          !.regs = @ \cup {<<p, q>>, <<q, p>>}]
    /\ UNCHANGED <<protoVars, createVars, memVars, capVars, ownVars, pollVars, eqVars, netVars>>

\* conn.once('data'): q reads the REGISTER_NODE message of p; q calls _addWriter when
\* it is writable and was constructed without a bootstrap key
Register(q, p) ==
    /\ <<p, q>> \in rep.regs
    /\ LET r == [rep EXCEPT !.regs = @ \ {<<p, q>>}]
       IN  IF Writable(rep.base[q], q) /\ ~HasBootstrapKey(q)
           THEN /\ TotalEntries(rep.logs) < MaxEntries
                /\ rep' = AppendTo(r, q, AddWriterOp(p))
           ELSE rep' = r
    /\ UNCHANGED <<protoVars, createVars, memVars, capVars, ownVars, pollVars, eqVars, netVars>>

\* replication that hands over a peer's own log only, never what it holds of others
ReplicateOwn(p, w) ==
    /\ w # p
    /\ {p, w} \in rep.links /\ rep.seen[w][w] > rep.seen[p][w]
    /\ LET sn == [rep.seen[p] EXCEPT ![w] = @ + 1]
       IN  rep' = [rep EXCEPT !.seen[p] = sn,
                              !.base[p] = Materialize(rep.base[p], rep.logs, sn, w)]
    /\ UNCHANGED <<protoVars, createVars, memVars, capVars, ownVars, pollVars, eqVars, netVars>>

\* store.replicate(conn): the next entry of writer w's log reaches p from a peer it
\* is connected to, and Autobase brings p's view up to date
Replicate(p, w) ==
    /\ w # p
    /\ \E q \in Peers : {p, q} \in rep.links /\ rep.seen[q][w] > rep.seen[p][w]
    /\ LET sn == [rep.seen[p] EXCEPT ![w] = @ + 1]
       IN  rep' = [rep EXCEPT !.seen[p] = sn,
                              !.base[p] = Materialize(rep.base[p], rep.logs, sn, w)]
    /\ UNCHANGED <<protoVars, createVars, memVars, capVars, ownVars, pollVars, eqVars, netVars>>

NextStore ==
    \/ \E p \in Peers, q \in Peers : Connect(p, q)
    \/ \E q \in Peers, p \in Peers : Register(q, p)
    \/ \E p \in Peers, w \in Peers : Replicate(p, w)
    \/ \E q \in Peers : AutobaseSaveMultisigInfo(q, StoreInfo)
    \/ \E q \in Peers : AutobaseSaveProposal(q, StoreProposal(q))
    \/ \E q \in Peers : AutobaseAddSignature(q, StoreId, q)
    \/ \E q \in Peers : AutobaseUpdateProposalStatus(q, StoreId, "executed")

SpecStore == InitStore /\ [][NextStore]_vars

-----------------------------------------------------------------------------
(* SpecNet: the AutobaseStorageAdapter of the three peers on a transport whose
   connections also drop and come back. store.replicate(conn) keeps sending what
   the other side lacks for as long as the connection stays up; nothing is assumed
   about when connections are made or dropped, nor about when a peer calls its
   storage. *)

\* the connection between p and q is lost; what was written on it and not yet read
\* is lost with it. The adapter has no handler for it: its log and view stay.
Disconnect(p, q) ==
    /\ {p, q} \in rep.links
    /\ rep' = [rep EXCEPT !.links = @ \ {{p, q}},
                          !.regs = @ \ {<<p, q>>, <<q, p>>}]
    /\ UNCHANGED <<protoVars, createVars, memVars, capVars, ownVars, pollVars, eqVars, netVars>>

\* entries appended to all local logs together in SpecNet
MaxNetEntries == 2

NetBound == TotalEntries(rep'.logs) <= MaxNetEntries

NextNet ==
    \/ \E p \in Peers, q \in Peers : Connect(p, q)
    \/ \E p \in Peers, q \in Peers : Disconnect(p, q)
    \/ \E q \in Peers, p \in Peers : Register(q, p) /\ NetBound
    \/ \E p \in Peers, w \in Peers : Replicate(p, w)
    \/ \E q \in Peers : AutobaseSaveProposal(q, StoreProposal(q)) /\ NetBound
    \/ \E q \in Peers : AutobaseAddSignature(q, StoreId, q) /\ NetBound
    \/ \E q \in Peers : AutobaseUpdateProposalStatus(q, StoreId, "executed") /\ NetBound

\* store.replicate(conn): while some open connection has an entry to deliver,
\* replication delivers an entry
NetFairness == WF_vars(\E p \in Peers, w \in Peers : Replicate(p, w))

SpecNet == InitStore /\ [][NextNet]_vars /\ NetFairness

-----------------------------------------------------------------------------
(* SpecMem: one process, its MemoryStorageAdapter and a caller that builds
   objects, hands them to the store, gets objects back and mutates in place what
   it holds. *)

InitMem == Init /\ variant = "safe"

Room(n) == Len(mem.heap) + n <= MaxObjects

\* the caller builds a proposal the way propose() does: an object literal with a
\* transaction object and a signatures array of one entry
BuildProposal ==
    /\ Room(4)
    /\ \A r \in mem.held : mem.heap[r].kind # "proposal"
    /\ LET n == Len(mem.heap)
       IN  mem' = [mem EXCEPT
                    !.heap = @ \o <<TxObj("to"), SigObj("A"), ArrayObj(<<n + 2>>),
                                    ProposalObj("pending", n + 1, n + 3)>>,
                    !.held = @ \cup {n + 4}]
    /\ UNCHANGED <<protoVars, createVars, repVars, capVars, ownVars, pollVars, eqVars, netVars>>

\* the caller builds a wallet record the way create() does
BuildInfo ==
    /\ Room(2)
    /\ \A r \in mem.held : mem.heap[r].kind # "info"
    /\ LET n == Len(mem.heap)
       IN  mem' = [mem EXCEPT
                    !.heap = @ \o <<OwnersObj(<<"A", "B">>), InfoObj(n + 1, 2)>>,
                    !.held = @ \cup {n + 2}]
    /\ UNCHANGED <<protoVars, createVars, repVars, capVars, ownVars, pollVars, eqVars, netVars>>

\* the caller builds a signature entry the way sign() does
BuildSignature ==
    /\ Room(1)
    /\ \A r \in mem.held : mem.heap[r].kind # "sig"
    /\ mem' = [mem EXCEPT !.heap = Append(@, SigObj("B")),
                          !.held = @ \cup {Len(mem.heap) + 1}]
    /\ UNCHANGED <<protoVars, createVars, repVars, capVars, ownVars, pollVars, eqVars, netVars>>

\* saveProposal(proposal): proposals.set(id, {...proposal, signatures: [...]})
ObjSaveProposal(r) ==
    /\ r \in mem.held /\ mem.heap[r].kind = "proposal"
    /\ Room(2)
    /\ mem' = [mem EXCEPT !.heap = CopyProposal(@, r),
                          !.proposal = Len(mem.heap) + 2]
    /\ UNCHANGED <<protoVars, createVars, repVars, capVars, ownVars, pollVars, eqVars, netVars>>

\* getProposal(id) and every element of listProposals(): the same copy, returned
ObjGetProposal ==
    /\ mem.proposal # NoRef
    /\ Room(2)
    /\ mem' = [mem EXCEPT !.heap = CopyProposal(@, mem.proposal),
                          !.held = @ \cup {Len(mem.heap) + 2}]
    /\ UNCHANGED <<protoVars, createVars, repVars, capVars, ownVars, pollVars, eqVars, netVars>>

\* addSignature(id, signature): proposal.signatures.push({...signature})
ObjAddSignature(r) ==
    /\ r \in mem.held /\ mem.heap[r].kind = "sig"
    /\ mem.proposal # NoRef
    /\ Room(1)
    /\ LET n == Len(mem.heap)
           a == mem.heap[mem.proposal].signatures
       IN  /\ Len(mem.heap[a].items) < MaxSigs
           /\ mem' = [mem EXCEPT
                        !.heap = [Append(@, mem.heap[r]) EXCEPT
                                    ![a].items = Append(@, n + 1)]]
    /\ UNCHANGED <<protoVars, createVars, repVars, capVars, ownVars, pollVars, eqVars, netVars>>

\* saveMultisigInfo(info): multisigs.set(address, {...info})
ObjSaveMultisigInfo(r) ==
    /\ r \in mem.held /\ mem.heap[r].kind = "info"
    /\ Room(1)
    /\ mem' = [mem EXCEPT !.heap = CopyInfo(@, r),
                          !.multisig = Len(mem.heap) + 1]
    /\ UNCHANGED <<protoVars, createVars, repVars, capVars, ownVars, pollVars, eqVars, netVars>>

\* getMultisigInfo(address): {...info}, returned
ObjGetMultisigInfo ==
    /\ mem.multisig # NoRef
    /\ Room(1)
    /\ mem' = [mem EXCEPT !.heap = CopyInfo(@, mem.multisig),
                          !.held = @ \cup {Len(mem.heap) + 1}]
    /\ UNCHANGED <<protoVars, createVars, repVars, capVars, ownVars, pollVars, eqVars, netVars>>

\* the cell after the caller's mutation in place: a field assignment on an object,
\* a pop() on an array
Mutated(o) ==
    CASE o.kind = "proposal" -> [o EXCEPT !.status = "tampered"]
      [] o.kind = "tx" -> [o EXCEPT !.to = "elsewhere"]
      [] o.kind = "sig" -> [o EXCEPT !.signer = "Z"]
      [] o.kind = "info" -> [o EXCEPT !.threshold = 1]
      [] o.kind \in {"array", "owners"} ->
            [o EXCEPT !.items = SubSeq(@, 1, Len(@) - 1)]

\* the caller mutates in place an object it holds or reaches through one it holds
Mutate(r) ==
    /\ r \in ReachableFrom(mem.heap, mem.held)
    /\ mem' = [mem EXCEPT !.heap[r] = Mutated(@)]
    /\ UNCHANGED <<protoVars, createVars, repVars, capVars, ownVars, pollVars, eqVars, netVars>>

Objects == 1..MaxObjects

NextMem ==
    \/ BuildProposal
    \/ BuildInfo
    \/ BuildSignature
    \/ \E r \in Objects : ObjSaveProposal(r)
    \/ ObjGetProposal
    \/ \E r \in Objects : ObjAddSignature(r)
    \/ \E r \in Objects : ObjSaveMultisigInfo(r)
    \/ ObjGetMultisigInfo
    \/ \E r \in Objects : Mutate(r)

SpecMem == InitMem /\ [][NextMem]_vars

-----------------------------------------------------------------------------
(* SpecCap: a manager is constructed with a storage object and then used. *)

InitCap == Init /\ variant = "safe"

\* methods a storage object may lack
MaxMissing == 2

\* the storage objects: the interface less up to MaxMissing methods
Storages ==
    {StorageMethods \ missing :
        missing \in {m \in SUBSET StorageMethods : Cardinality(m) <= MaxMissing}}

\* new Manager(account, {storage}): the constructor throws when _isValidStorage fails
Construct(storage) ==
    /\ cap.state = "none"
    /\ cap' = [storage |-> storage,
               state |-> IF IsValidStorage(storage) THEN "constructed" ELSE "rejected",
               op |-> "constructor",
               outcome |-> IF IsValidStorage(storage) THEN "ok"
                           ELSE "Storage must implement StorageAdapter interface"]
    /\ UNCHANGED <<protoVars, createVars, repVars, memVars, ownVars, pollVars, eqVars, netVars>>

\* an operation of the constructed manager
ManagerCall(op) ==
    /\ cap.state = "constructed"
    /\ cap' = [cap EXCEPT !.op = op, !.outcome = CallOutcome(cap.storage, op)]
    /\ UNCHANGED <<protoVars, createVars, repVars, memVars, ownVars, pollVars, eqVars, netVars>>

NextCap ==
    \/ \E storage \in Storages : Construct(storage)
    \/ \E op \in ManagerOps : ManagerCall(op)

SpecCap == InitCap /\ [][NextCap]_vars

-----------------------------------------------------------------------------
(* SpecCreate: create(), import() and importMultisigInfo() over bounded inputs.
   Owners are numbered 1..n, the local signer is an owner number or the outsider 0. *)

\* longest owners list passed to create() / import()
MaxOwners == 16

CreateVariants == {"safe", "btc", "safe4337", "api"}

OwnersOfSize(n) == [i \in 1..n |-> i]

CallSigners == {0, 1, 2}

InitCreate == Init /\ variant = "safe"

\* create(owners, threshold) of class v with local signer `signer`: the outcome, the
\* manager fields it leaves and the wallet record it saves (SafeMultisigEVM4337Api
\* has no storage)
CreateCall(v, owners, threshold, signer) ==
    /\ cin = NoCall
    /\ cin' = Call("create", v, owners, threshold, signer)
    /\ cout' = LET out == CreateCheck(v, owners, threshold, signer)
                   a == DeriveAddress(owners, threshold)
               IN  IF out = "ok"
                   THEN Outcome("ok", Bound(a, owners, threshold),
                                IF v = "api" THEN NoInfo
                                ELSE MemSaveMultisigInfo(<<>>,
                                        Info(a, owners, threshold, v # "safe"))[a])
                   ELSE Outcome(out, NoManager, NoInfo)
    /\ UNCHANGED <<protoVars, repVars, memVars, capVars, ownVars, pollVars, eqVars, netVars>>

\* BitcoinMultisig.import(address, witnessScript) with a script that decodes to
\* `threshold` and `owners`: both are assigned as decoded, then the signer is looked up
BtcImportCall(owners, threshold, signer) ==
    /\ cin = NoCall
    /\ cin' = Call("import", "btc", owners, threshold, signer)
    /\ cout' = LET a == DeriveAddress(owners, threshold)
               IN  IF signer \in Range(owners)
                   THEN Outcome("ok", Bound(a, owners, threshold),
                                MemSaveMultisigInfo(<<>>,
                                    Info(a, owners, threshold, TRUE))[a])
                   ELSE Outcome("NotAnOwner", Bound(a, owners, threshold), NoInfo)
    /\ UNCHANGED <<protoVars, repVars, memVars, capVars, ownVars, pollVars, eqVars, netVars>>

\* import() of a Safe that is not deployed: SafeMultisigEVM4337 takes owners and
\* threshold from the stored record (and refuses a record without them),
\* SafeMultisigEVM4337Api from the predictedSafeConfig argument; both hand them to
\* Safe4337Pack.init and keep them as given
PredictedImportCall(v, owners, threshold, signer) ==
    /\ cin = NoCall
    /\ v \in {"safe4337", "api"}
    /\ cin' = Call("import", v, owners, threshold, signer)
    /\ cout' = LET a == DeriveAddress(owners, threshold)
               IN  IF v = "safe4337" /\ (owners = <<>> \/ threshold = NullThreshold)
                   THEN Outcome("ImportError", NoManager, NoInfo)
                   ELSE IF PackInitCheck(owners, threshold) # "ok"
                   THEN Outcome("ValidationError", NoManager, NoInfo)
                   ELSE Outcome("ok", Bound(a, owners, threshold),
                                IF v = "api" THEN NoInfo
                                ELSE MemSaveMultisigInfo(<<>>,
                                        Info(a, owners, threshold, TRUE))[a])
    /\ UNCHANGED <<protoVars, repVars, memVars, capVars, ownVars, pollVars, eqVars, netVars>>

\* storage.importMultisigInfo(json) / saveMultisigInfo(info): the record is stored as
\* it comes
ImportMultisigInfoCall(owners, threshold) ==
    /\ cin = NoCall
    /\ cin' = Call("importMultisigInfo", "-", owners, threshold, 0)
    /\ cout' = LET a == DeriveAddress(owners, threshold)
               IN  Outcome("ok", NoManager,
                           MemSaveMultisigInfo(<<>>, Info(a, owners, threshold, FALSE))[a])
    /\ UNCHANGED <<protoVars, repVars, memVars, capVars, ownVars, pollVars, eqVars, netVars>>

\* one call per behaviour, on a manager and a store as constructed
NextCreate ==
    \E n \in 0..MaxOwners, t \in 0..(MaxOwners + 1), signer \in CallSigners :
        \/ \E v \in CreateVariants : CreateCall(v, OwnersOfSize(n), t, signer)
        \/ BtcImportCall(OwnersOfSize(n), t, signer)
        \/ \E v \in CreateVariants : PredictedImportCall(v, OwnersOfSize(n), t, signer)
        \/ ImportMultisigInfoCall(OwnersOfSize(n), t)

SpecCreate == InitCreate /\ [][NextCreate]_vars

-----------------------------------------------------------------------------
(* SpecImport: one import(address, ...) call of a wallet that is not deployed, on a
   fresh manager: the requested address, and the owners, threshold and salt (or
   the witness script) that are supplied or stored for it. *)

InitImport == Init /\ variant = "safe"

\* salt nonces
Salts == {0, 1}

\* protocolKit.getAddress() of a Safe predicted from owners, threshold and
\* saltNonce; the P2WSH address of a witness script (no salt: 0)
PredictAddress(owners, threshold, salt) == <<DeriveAddress(owners, threshold), salt>>

\* the addresses import() is asked for
ImportAddresses ==
    {PredictAddress(o, t, n) : o \in OwnerLists, t \in 1..2, n \in Salts}

ImportInput(v, address, owners, threshold, salt) ==
    [op |-> "import", v |-> v, address |-> address, owners |-> owners,
     threshold |-> threshold, salt |-> salt, signer |-> "A"]

\* SafeMultisigEVM4337.import(address): owners, threshold and saltNonce come from
\* the stored record; a predicted address other than the requested one is an error
Safe4337ImportAt(address, owners, threshold, salt) ==
    /\ cin = NoCall
    /\ cin' = ImportInput("safe4337", address, owners, threshold, salt)
    /\ cout' = IF PredictAddress(owners, threshold, salt) # address
               THEN Outcome("AddressMismatch", NoManager, NoInfo)
               ELSE Outcome("ok", Bound(address, owners, threshold), NoInfo)
    /\ UNCHANGED <<protoVars, repVars, memVars, capVars, ownVars, pollVars, eqVars, netVars>>

\* SafeMultisigEVM4337Api.import(safeAddress, predictedSafeConfig): a predicted
\* address other than the requested one is logged and becomes this.address
ApiImportAt(address, owners, threshold, salt) ==
    /\ cin = NoCall
    /\ cin' = ImportInput("api", address, owners, threshold, salt)
    /\ cout' = Outcome("ok",
                       Bound(PredictAddress(owners, threshold, salt), owners, threshold),
                       NoInfo)
    /\ UNCHANGED <<protoVars, repVars, memVars, capVars, ownVars, pollVars, eqVars, netVars>>

\* BitcoinMultisig.import(address, witnessScript): this.address is the argument,
\* owners and threshold are decoded from the script; the two are not compared
BtcImportAt(address, owners, threshold) ==
    /\ cin = NoCall
    /\ cin' = ImportInput("btc", address, owners, threshold, 0)
    /\ cout' = Outcome("ok", Bound(address, owners, threshold),
                       MemSaveMultisigInfo(<<>>,
                            Info(address, owners, threshold, TRUE))[address])
    /\ UNCHANGED <<protoVars, repVars, memVars, capVars, ownVars, pollVars, eqVars, netVars>>

NextImport ==
    \E address \in ImportAddresses, o \in OwnerLists, t \in 1..2, n \in Salts :
        \/ Safe4337ImportAt(address, o, t, n)
        \/ ApiImportAt(address, o, t, n)
        \/ BtcImportAt(address, o, t)

SpecImport == InitImport /\ [][NextImport]_vars

-----------------------------------------------------------------------------
(* SpecOwners: owner management. One wallet with owners A and B and threshold 2,
   created by A and imported by B; addOwner / removeOwner / changeThreshold of
   every manager class, and sign() and execute() of the proposals they store, each
   taken as one step. The chain holds the wallet's owners, threshold and nonce;
   `by` and `out` are the caller of the last call and how it ended, when it was
   one of the three operations. *)

\* nonce up to which the wallet of SpecOwners is followed
MaxOwnNonce == 1
\* ownership-change proposals kept in the store at once
MaxOwnProposals == 2

\* the manager classes: SafeMultisigEVM and SafeMultisigEVM4337 define the three
\* operations, BitcoinMultisig and SafeMultisigEVM4337Api inherit MultisigManager's
OwnerVariants == {"safe", "safe4337", "btc", "api"}

\* `newThreshold` left out by the caller (undefined)
NotGiven == -1
OwnerThresholds == {NotGiven, 0, 3}

FirstOwners == <<"A", "B">>
FirstThreshold == 2
OwnAddress == DeriveAddress(FirstOwners, FirstThreshold)

\* the wallet after create() by A and import() by B
InitOwners ==
    /\ variant = "safe"
    /\ mgr = [s \in Signers |-> NoManager]
    /\ multisigs = <<>>
    /\ proposals = <<>>
    /\ chain = [nonce |-> <<>>, deployed |-> {}, sent |-> {}]
    /\ pc = [s \in Signers |-> "idle"]
    /\ snap = [s \in Signers |-> NoProposal]
    /\ res = NoResult
    /\ cin = NoCall
    /\ cout = NoOutcome
    /\ rep = NoReplication
    /\ mem = NoObjects
    /\ cap = NotConstructed
    /\ poll = NoPolling
    /\ eqv = NoEquiv
    /\ net = NoWire
    /\ \E v \in OwnerVariants :
          own = [v |-> v,
                 mgr |-> [s \in Signers |->
                            IF s \in Range(FirstOwners)
                            THEN Bound(OwnAddress, FirstOwners, FirstThreshold)
                            ELSE NoManager],
                 multisigs |-> MemSaveMultisigInfo(<<>>,
                                  Info(OwnAddress, FirstOwners, FirstThreshold,
                                       v # "safe")),
                 proposals |-> <<>>,
                 wallet |-> OnChain(FirstOwners, FirstThreshold, 0),
                 by |-> "-", out |-> "-"]

\* transaction.data as createAddOwnerTx / createRemoveOwnerTx /
\* createChangeThresholdTx encode it: the arguments of a call of the wallet on
\* itself (transaction.operation, the `tx` of the proposal, names the call)
OwnerTx(owner, threshold) == [owner |-> owner, threshold |-> threshold]

\* SafeMultisigEVM._refreshSafeInfo: this.owners and this.threshold from the chain
RefreshSafeInfo(mg, w) == [mg EXCEPT !.owners = w.owners, !.threshold = w.threshold]

\* newThreshold !== undefined ? newThreshold : this.threshold
ThresholdArg(newThreshold, current) ==
    IF newThreshold = NotGiven THEN current ELSE newThreshold

\* removeOwner: a threshold above the owners that remain is lowered to their number
RemoveThreshold(owners, threshold) ==
    IF threshold > Len(owners) - 1 THEN Len(owners) - 1 ELSE threshold

\* the checks of the three operations in SafeMultisigEVM, on this.owners as
\* _refreshSafeInfo left it
AddOwnerCheck(owners, owner, threshold) ==
    IF owner \in Range(owners) THEN "AlreadyOwner"
    ELSE IF threshold < 1 \/ threshold > Len(owners) + 1 THEN "ValidationError"
    ELSE "ok"

RemoveOwnerCheck(owners, owner, threshold) ==
    IF owner \notin Range(owners) THEN "NotAnOwner"
    ELSE IF Len(owners) = 1 THEN "LastOwner"
    ELSE IF threshold < 1 THEN "ValidationError"
    ELSE "ok"

ChangeThresholdCheck(owners, threshold) ==
    IF threshold < 1 \/ threshold > Len(owners) THEN "ValidationError" ELSE "ok"

\* the checks of addOwner and removeOwner in SafeMultisigEVM4337, on the owners
\* protocolKit.getOwners() returns: the threshold is handed on as it is
Safe4337AddOwnerCheck(owners, owner) ==
    IF owner \in Range(owners) THEN "AlreadyOwner" ELSE "ok"

Safe4337RemoveOwnerCheck(owners, owner) ==
    IF owner \notin Range(owners) THEN "NotAnOwner"
    ELSE IF Len(owners) = 1 THEN "LastOwner"
    ELSE "ok"

\* the number of owners once the operation is executed
OwnersAfter(op, owners) ==
    CASE op = "addOwner" -> Len(owners) + 1
      [] op = "removeOwner" -> Len(owners) - 1
      [] OTHER -> Len(owners)

\* a Safe SDK that encodes whatever threshold it is given
SdkThresholdCheckNone(count, threshold) == "ok"

\* createAddOwnerTx / createRemoveOwnerTx / createChangeThresholdTx of the Safe SDK,
\* which both classes call before anything is stored: the SDK refuses to encode
\* a threshold below 1 or above the number of owners the Safe will have
SdkThresholdCheck(count, threshold) ==
    IF threshold < 1 \/ threshold > count THEN "ValidationError" ELSE "ok"

\* MultisigManager.addOwner / removeOwner / changeThreshold: throw, whatever the
\* arguments and the state of the manager
ManagerOwnersOp(o, op, m) == [o EXCEPT !.by = m, !.out = "Immutable"]

\* an ownership proposal stored as executed before anybody ran it
OwnersProposalExecuted(v, address, op, data, nonce, signer) ==
    LET p == NewProposal(v, address, op, nonce, signer)
    IN  [id |-> [w |-> p.id.w, tx |-> p.id.tx, n |-> p.id.n, by |-> p.id.by,
                 data |-> data],
         multisigAddress |-> p.multisigAddress, tx |-> p.tx, data |-> data,
         nonce |-> p.nonce, signatures |-> p.signatures, status |-> "executed"]

\* the record the three operations hand to storage.saveProposal: the transaction
\* with its data, the caller's signature alone, status 'pending'; the id is a
\* prefix of the hash of the transaction, data included
OwnersProposal(v, address, op, data, nonce, signer) ==
    LET p == NewProposal(v, address, op, nonce, signer)
    IN  [id |-> [w |-> p.id.w, tx |-> p.id.tx, n |-> p.id.n, by |-> p.id.by,
                 data |-> data],
         multisigAddress |-> p.multisigAddress, tx |-> p.tx, data |-> data,
         nonce |-> p.nonce, signatures |-> p.signatures, status |-> p.status]

\* SafeMultisigEVM: refresh, check, have the SDK build the transaction, sign it at
\* the Safe's nonce, save the proposal; SafeMultisigEVM4337: check against the
\* owners on chain with this.threshold as the default, have the SDK build the
\* transaction, then propose() it
OwnersOp(o, op, m, owner, newThreshold) ==
    IF ~o.mgr[m].ready
    THEN [o EXCEPT !.by = m, !.out = "NotInitialized"]
    ELSE LET mg == IF o.v = "safe" THEN RefreshSafeInfo(o.mgr[m], o.wallet)
                   ELSE o.mgr[m]
             owners == o.wallet.owners
             given == IF op = "changeThreshold" THEN newThreshold
                      ELSE ThresholdArg(newThreshold, mg.threshold)
             threshold == IF op = "removeOwner" /\ Len(owners) > 1
                          THEN RemoveThreshold(owners, given) ELSE given
             own1 == CASE op = "addOwner" /\ o.v = "safe" ->
                                AddOwnerCheck(owners, owner, threshold)
                       [] op = "addOwner" /\ o.v # "safe" ->
                                Safe4337AddOwnerCheck(owners, owner)
                       [] op = "removeOwner" /\ o.v = "safe" ->
                                RemoveOwnerCheck(owners, owner, threshold)
                       [] op = "removeOwner" /\ o.v # "safe" ->
                                Safe4337RemoveOwnerCheck(owners, owner)
                       [] op = "changeThreshold" ->
                                ChangeThresholdCheck(owners, threshold)
             check == IF own1 # "ok" THEN own1
                      ELSE SdkThresholdCheck(OwnersAfter(op, owners), threshold)
             p == OwnersProposal(o.v, mg.address, op, OwnerTx(owner, threshold),
                                 o.wallet.nonce, m)
         IN  IF check # "ok"
             THEN [o EXCEPT !.mgr[m] = mg, !.by = m, !.out = check]
             ELSE [o EXCEPT !.mgr[m] = mg,
                            !.proposals = MemSaveProposal(o.proposals, p),
                            !.by = m, !.out = "ok"]

\* the operation as the class of the manager defines it
OwnersCall(o, op, m, owner, newThreshold) ==
    IF o.v \in {"safe", "safe4337"}
    THEN OwnersOp(o, op, m, owner, newThreshold)
    ELSE ManagerOwnersOp(o, op, m)

OwnersRoom(o) == Cardinality(DOMAIN o.proposals) <= MaxOwnProposals

AddOwner(m, owner, newThreshold) ==
    /\ own' = OwnersCall(own, "addOwner", m, owner, newThreshold)
    /\ OwnersRoom(own')
    /\ UNCHANGED <<protoVars, createVars, repVars, memVars, capVars, pollVars, eqVars, netVars>>

RemoveOwner(m, owner, newThreshold) ==
    /\ own' = OwnersCall(own, "removeOwner", m, owner, newThreshold)
    /\ OwnersRoom(own')
    /\ UNCHANGED <<protoVars, createVars, repVars, memVars, capVars, pollVars, eqVars, netVars>>

ChangeThreshold(m, newThreshold) ==
    /\ newThreshold # NotGiven
    /\ own' = OwnersCall(own, "changeThreshold", m, "-", newThreshold)
    /\ OwnersRoom(own')
    /\ UNCHANGED <<protoVars, createVars, repVars, memVars, capVars, pollVars, eqVars, netVars>>

\* SafeMultisigEVM.import(address) by any signer: owners and threshold are read from
\* the Safe and saved as the wallet's record
OwnersImport(m) ==
    /\ own.v = "safe"
    /\ own' = [own EXCEPT
                  !.mgr[m] = Bound(OwnAddress, own.wallet.owners, own.wallet.threshold),
                  !.multisigs = MemSaveMultisigInfo(@,
                                   Info(OwnAddress, own.wallet.owners,
                                        own.wallet.threshold, FALSE)),
                  !.by = "-", !.out = "-"]
    /\ UNCHANGED <<protoVars, createVars, repVars, memVars, capVars, pollVars, eqVars, netVars>>

\* sign(proposalId) of the storage-backed classes, in one step
OwnersSign(m, id) ==
    /\ own.v \in Variants
    /\ LET p == MemGetProposal(own.proposals, id)
           out == SignOutcome(own.v, own.mgr[m], p, m)
       IN  /\ out = "reading" => Len(p.signatures) < MaxSigs
           /\ own' = IF out = "reading"
                     THEN [own EXCEPT
                              !.proposals = MemSaveProposal(@, SignedProposal(p, m)),
                              !.by = "-", !.out = "-"]
                     ELSE [own EXCEPT !.by = "-", !.out = "-"]
    /\ UNCHANGED <<protoVars, createVars, repVars, memVars, capVars, pollVars, eqVars, netVars>>

\* the wallet contract's own checks of an ownership call
OwnerTxValid(w, op, tx) ==
    CASE op = "addOwner" ->
            /\ tx.owner \notin Range(w.owners)
            /\ 1 <= tx.threshold /\ tx.threshold <= Len(w.owners) + 1
      [] op = "removeOwner" ->
            /\ tx.owner \in Range(w.owners)
            /\ 1 <= tx.threshold /\ tx.threshold <= Len(w.owners) - 1
      [] op = "changeThreshold" ->
            1 <= tx.threshold /\ tx.threshold <= Len(w.owners)

\* the wallet after the call
OwnerTxApply(w, op, tx) ==
    [w EXCEPT !.owners = CASE op = "addOwner" -> Append(@, tx.owner)
                           [] op = "removeOwner" ->
                                    SelectSeq(@, LAMBDA x : x # tx.owner)
                           [] op = "changeThreshold" -> @,
              !.threshold = tx.threshold]

\* execute(proposalId) of the storage-backed classes, in one step: the checks, the
\* broadcast and what follows it.
\* The wallet takes signatures of at least its threshold of its current owners,
\* made over the payload it is handed, at its current nonce.
OwnersExecute(m, id, outcome) ==
    /\ own.v \in Variants
    /\ outcome \in ChainOutcomes(own.v)
    /\ LET p == MemGetProposal(own.proposals, id)
           out == ExecOutcome(own.v, own.mgr[m], p)
           w == own.wallet
           mined == outcome # "noreceipt" /\ ~Thrown(own.v, outcome)
       IN  IF out # "reading"
           THEN own' = [own EXCEPT !.by = "-", !.out = "-"]
           ELSE IF outcome = "throw"
           THEN own' = [own EXCEPT !.by = "-", !.out = "-"]
           ELSE /\ ExecPayload(own.v, p, w.nonce).n = w.nonce
                /\ ExecPayload(own.v, p, w.nonce) = SignedPayload(p)
                /\ Cardinality(Range(p.signatures) \cap Range(w.owners)) >= w.threshold
                /\ outcome = "ok" <=> OwnerTxValid(w, p.tx, p.data)
                /\ mined => w.nonce < MaxOwnNonce
                /\ own' = [own EXCEPT
                              !.wallet = [(IF outcome = "ok" THEN OwnerTxApply(w, p.tx, p.data)
                                           ELSE w)
                                          EXCEPT !.nonce = IF mined THEN @ + 1 ELSE @],
                              !.proposals = MemUpdateProposalStatus(@, id,
                                               StatusAfter(own.v, p.status, outcome)),
                              !.multisigs =
                                  IF own.v = "safe4337" /\ mined
                                  THEN MemSaveMultisigInfo(@,
                                          Info(own.mgr[m].address, own.mgr[m].owners,
                                               own.mgr[m].threshold, FALSE))
                                  ELSE @,
                              !.by = "-", !.out = "-"]
    /\ UNCHANGED <<protoVars, createVars, repVars, memVars, capVars, pollVars, eqVars, netVars>>

OwnersIds == IF own.proposals = <<>> THEN {NoId} ELSE DOMAIN own.proposals

NextOwners ==
    \/ \E m \in Signers, o \in Signers, t \in OwnerThresholds : AddOwner(m, o, t)
    \/ \E m \in Signers, o \in Signers, t \in OwnerThresholds : RemoveOwner(m, o, t)
    \/ \E m \in Signers, t \in OwnerThresholds : ChangeThreshold(m, t)
    \/ \E m \in Signers : OwnersImport(m)
    \/ \E m \in Signers, id \in OwnersIds : OwnersSign(m, id)
    \/ \E m \in Signers, id \in OwnersIds,
          o \in {"ok", "revert", "noreceipt", "throw"} : OwnersExecute(m, id, o)

SpecOwners == InitOwners /\ [][NextOwners]_vars

-----------------------------------------------------------------------------
(* SpecPoll: the confirmation polling of execute() on the asynchronous-execution
   chain (SafeMultisigEVM4337 and SafeMultisigEVM4337Api). A fully signed pending
   proposal is handed to the bundler; every two seconds execute() asks for the
   receipt, which the bundler does not have yet, fails to deliver, or returns. *)

\* const maxAttempts = 60
MaxAttempts == 60

\* the classes that poll; SafeMultisigEVM4337Api keeps no proposals in a storage
PollVariants == {"safe4337", "api"}

HasStorage(v) == v = "safe4337"

InitPoll ==
    /\ variant = "safe4337"
    /\ mgr = [s \in Signers |-> NoManager]
    /\ multisigs = <<>>
    /\ proposals = <<>>
    /\ chain = [nonce |-> <<>>, deployed |-> {}, sent |-> {}]
    /\ pc = [s \in Signers |-> "idle"]
    /\ snap = [s \in Signers |-> NoProposal]
    /\ res = NoResult
    /\ cin = NoCall
    /\ cout = NoOutcome
    /\ rep = NoReplication
    /\ mem = NoObjects
    /\ cap = NotConstructed
    /\ own = NoOwners
    /\ eqv = NoEquiv
    /\ net = NoWire
    /\ \E v \in PollVariants :
          poll = Polling(v, "checked", 0, NoReceipt,
                         IF HasStorage(v) THEN "pending" ELSE "-", "-")

\* a loop that asks once more than maxAttempts allows
PollAgainOnceMore(receipt, attempts) == receipt = NoReceipt /\ attempts <= MaxAttempts

\* while (!receipt && attempts < maxAttempts)
PollAgain(receipt, attempts) == receipt = NoReceipt /\ attempts < MaxAttempts

\* what getUserOperationReceipt resolves to or rejects with
ReceiptAnswers == {"none", "throw", "success", "reverted"}

\* receipt = await getUserOperationReceipt(userOpHash) inside try / catch: a rejected
\* call leaves receipt as it was
ReceiptAfter(receipt, answer) == IF answer = "throw" THEN receipt ELSE answer

\* safe4337Pack.executeTransaction: the bundler takes the user operation and returns
\* its hash, or the call is rejected and execute() throws
PollSubmit(ok) ==
    /\ poll.pc = "checked"
    /\ poll' = IF ok THEN [poll EXCEPT !.pc = "polling"]
               ELSE [poll EXCEPT !.pc = "returned", !.result = "BroadcastError"]
    /\ UNCHANGED <<protoVars, createVars, repVars, memVars, capVars, ownVars, eqVars, netVars>>

\* one turn of the loop: the two-second timer, the request, attempts++
PollAttempt(answer) ==
    /\ poll.pc = "polling"
    /\ PollAgain(poll.receipt, poll.attempts)
    /\ poll' = [poll EXCEPT !.receipt = ReceiptAfter(@, answer), !.attempts = @ + 1]
    /\ UNCHANGED <<protoVars, createVars, repVars, memVars, capVars, ownVars, eqVars, netVars>>

\* after the loop: without a receipt the proposal is recorded as submitted and the
\* result has userOpHash and txHash null; with one it is recorded as executed or
\* failed and the result has the transaction hash
PollReturn ==
    /\ poll.pc = "polling"
    /\ ~PollAgain(poll.receipt, poll.attempts)
    /\ poll' = [poll EXCEPT
                   !.pc = "returned",
                   !.status = IF ~HasStorage(poll.v) THEN @
                              ELSE IF poll.receipt = NoReceipt THEN "submitted"
                              ELSE IF poll.receipt = "success" THEN "executed"
                              ELSE "failed",
                   !.result = IF poll.receipt = NoReceipt THEN "submitted"
                              ELSE poll.receipt]
    /\ UNCHANGED <<protoVars, createVars, repVars, memVars, capVars, ownVars, eqVars, netVars>>

NextPoll ==
    \/ \E ok \in BOOLEAN : PollSubmit(ok)
    \/ \E answer \in ReceiptAnswers : PollAttempt(answer)
    \/ PollReturn

\* the timer fires and the request settles: a turn of the loop that can be taken is
\* taken, and so are the submission and the return
PollFairness ==
    /\ WF_vars(\E ok \in BOOLEAN : PollSubmit(ok))
    /\ WF_vars(\E answer \in ReceiptAnswers : PollAttempt(answer))
    /\ WF_vars(PollReturn)

SpecPoll == InitPoll /\ [][NextPoll]_vars /\ PollFairness

-----------------------------------------------------------------------------
(* SpecEquiv: one MemoryStorageAdapter and the AutobaseStorageAdapter of a single
   peer (the bootstrap, with nobody connected: its view is always up to date with
   its own log) are given the same sequence of StorageAdapter calls. eqv.out holds
   what the last call returned on either side. *)

InitEquiv == Init /\ variant = "safe"

\* calls that write, per run
MaxEqWrites == 3

\* owner addresses as callers write them: one address in its checksum form and in
\* lower case, and a second address
EqUsers == {"0xAb", "0xab", "0xCd"}

\* String.prototype.toLowerCase() on these addresses
ToLowerCase(s) ==
    CASE s = "0xAb" -> "0xab"
      [] s = "0xCd" -> "0xcd"
      [] OTHER -> s

\* two wallets that share an owner, stored in checksum form as create() stores them
EqWallets == {DeriveAddress(<<"0xAb">>, 1), DeriveAddress(<<"0xAb", "0xCd">>, 2)}
EqInfos == {Info(a, AddrOwners(a), AddrThreshold(a), FALSE) : a \in EqWallets}

\* the proposals of the first wallet; the third is never saved
EqProposal(n) ==
    LET a == DeriveAddress(<<"0xAb">>, 1)
    IN  [NoProposal EXCEPT !.id = [NoId EXCEPT !.w = a, !.tx = "tx1", !.n = n],
                           !.multisigAddress = a, !.tx = "tx1", !.nonce = n,
                           !.status = "pending"]
EqProposals == {EqProposal(0), EqProposal(1)}
EqIds == {EqProposal(n).id : n \in 0..2}

\* the place of a key among the keys of the Hyperbee, which it keeps sorted:
\* multisig:<address> and proposal:<id>
MultisigKeyRank == [a \in EqWallets |-> AddrThreshold(a)]
ProposalKeyRank == [i \in EqIds |-> i.n]

\* view.createReadStream({gte, lt}): the values in the order of their keys
RECURSIVE ReadStream(_, _)
ReadStream(store, rank) ==
    IF DOMAIN store = {} THEN <<>>
    ELSE LET k == CHOOSE k \in DOMAIN store : \A j \in DOMAIN store : rank[k] <= rank[j]
         IN  <<store[k]>> \o ReadStream([j \in DOMAIN store \ {k} |-> store[j]], rank)

\* Map.prototype.set: a new key goes last, a key already there keeps its place
MapSet(order, k) == IF k \in Range(order) THEN order ELSE Append(order, k)

\* iterating a Map: the values in the order their keys were first set
MapValues(store, order) == [i \in 1..Len(order) |-> store[order[i]]]

\* `!filter.status || proposal.status === filter.status`
NoFilter == "-"
StatusFilter(f, status) == f = NoFilter \/ status = f

\* MemoryStorageAdapter.getMultisigInfo
MemGetMultisigInfo(store, a) == IF a \in DOMAIN store THEN store[a] ELSE NoInfo

\* MemoryStorageAdapter.listMultisigsByUser: owners and user compared in lower case
MemListMultisigsByUser(m, user) ==
    SelectSeq(MapValues(m.multisigs, m.morder),
              LAMBDA i : ToLowerCase(user) \in {ToLowerCase(o) : o \in Range(i.owners)})

\* MemoryStorageAdapter.listAllMultisigs
MemListAllMultisigs(m) == MapValues(m.multisigs, m.morder)

\* MemoryStorageAdapter.listProposals
MemListProposals(m, a, f) ==
    SelectSeq(MapValues(m.proposals, m.porder),
              LAMBDA p : p.multisigAddress = a /\ StatusFilter(f, p.status))

\* MemoryStorageAdapter.listProposalsByUser
MemListProposalsByUser(m, user, f) ==
    LET mine == {i.address : i \in Range(MemListMultisigsByUser(m, user))}
    IN  SelectSeq(MapValues(m.proposals, m.porder),
                  LAMBDA p : p.multisigAddress \in mine /\ StatusFilter(f, p.status))

\* MemoryStorageAdapter.addSignature: what the caller gets
MemAddSignatureOut(store, id) == IF id \in DOMAIN store THEN Void ELSE Rejected

\* AutobaseStorageAdapter.getMultisigInfo: `result?.value || null`
AutobaseGetMultisigInfo(view, a) == MemGetMultisigInfo(view.multisigs, a)

\* AutobaseStorageAdapter.listMultisigsByUser: `value.owners.includes(userAddress)`
AutobaseListMultisigsByUser(view, user) ==
    SelectSeq(ReadStream(view.multisigs, MultisigKeyRank),
              LAMBDA i : user \in Range(i.owners))

\* AutobaseStorageAdapter.listAllMultisigs
AutobaseListAllMultisigs(view) == ReadStream(view.multisigs, MultisigKeyRank)

\* AutobaseStorageAdapter.listProposals
AutobaseListProposals(view, a, f) ==
    SelectSeq(ReadStream(view.proposals, ProposalKeyRank),
              LAMBDA p : p.multisigAddress = a /\ StatusFilter(f, p.status))

\* AutobaseStorageAdapter.listProposalsByUser
AutobaseListProposalsByUser(view, user, f) ==
    LET mine == {i.address : i \in Range(AutobaseListMultisigsByUser(view, user))}
    IN  SelectSeq(ReadStream(view.proposals, ProposalKeyRank),
                  LAMBDA p : p.multisigAddress \in mine /\ StatusFilter(f, p.status))

\* the view of the single peer
EqView == eqv.auto.base[Bootstrap].view

\* a writing call on both stores: the Maps after it, the operation appended on the
\* Autobase side (append() then update(); append() rejects on a peer that is not
\* writable), and what the memory store's call gave
EqWrite(maps, op, memOut) ==
    /\ eqv.writes < MaxEqWrites
    /\ eqv' = [mem |-> maps,
               auto |-> IF Writable(eqv.auto.base[Bootstrap], Bootstrap)
                        THEN AppendTo(eqv.auto, Bootstrap, op)
                        ELSE eqv.auto,
               writes |-> eqv.writes + 1,
               out |-> [mem |-> memOut,
                        auto |-> IF Writable(eqv.auto.base[Bootstrap], Bootstrap)
                                 THEN Void ELSE Rejected]]
    /\ UNCHANGED <<protoVars, createVars, repVars, memVars, capVars, ownVars, pollVars, netVars>>

\* a reading call on both stores
EqRead(memVal, autoVal) ==
    /\ eqv' = [eqv EXCEPT !.out = [mem |-> Obs("value", memVal),
                                   auto |-> Obs("value", autoVal)]]
    /\ UNCHANGED <<protoVars, createVars, repVars, memVars, capVars, ownVars, pollVars, netVars>>

EqSaveMultisigInfo(info) ==
    EqWrite([eqv.mem EXCEPT !.multisigs = MemSaveMultisigInfo(@, info),
                            !.morder = MapSet(@, info.address)],
            SaveMultisigInfoOp(info), Void)

EqSaveProposal(p) ==
    EqWrite([eqv.mem EXCEPT !.proposals = MemSaveProposal(@, p),
                            !.porder = MapSet(@, p.id)],
            SaveProposalOp(p), Void)

EqUpdateProposalStatus(id, status) ==
    EqWrite([eqv.mem EXCEPT !.proposals = MemUpdateProposalStatus(@, id, status)],
            UpdateStatusOp(id, status), Void)

EqAddSignature(id, signer) ==
    EqWrite([eqv.mem EXCEPT !.proposals = MemAddSignature(@, id, signer)],
            AddSignatureOp(id, signer), MemAddSignatureOut(eqv.mem.proposals, id))

EqGetMultisigInfo(a) ==
    EqRead(MemGetMultisigInfo(eqv.mem.multisigs, a), AutobaseGetMultisigInfo(EqView, a))

EqListMultisigsByUser(user) ==
    EqRead(MemListMultisigsByUser(eqv.mem, user), AutobaseListMultisigsByUser(EqView, user))

EqListAllMultisigs ==
    EqRead(MemListAllMultisigs(eqv.mem), AutobaseListAllMultisigs(EqView))

EqGetProposal(id) ==
    EqRead(MemGetProposal(eqv.mem.proposals, id), AutobaseGetProposal(eqv.auto.base[Bootstrap], id))

EqListProposals(a, f) ==
    EqRead(MemListProposals(eqv.mem, a, f), AutobaseListProposals(EqView, a, f))

EqListProposalsByUser(user, f) ==
    EqRead(MemListProposalsByUser(eqv.mem, user, f),
           AutobaseListProposalsByUser(EqView, user, f))

NextEquiv ==
    \/ \E info \in EqInfos : EqSaveMultisigInfo(info)
    \/ \E p \in EqProposals : EqSaveProposal(p)
    \/ \E id \in EqIds : EqUpdateProposalStatus(id, "executed")
    \/ \E id \in EqIds : EqAddSignature(id, "0xCd")
    \/ \E a \in EqWallets : EqGetMultisigInfo(a)
    \/ \E user \in EqUsers : EqListMultisigsByUser(user)
    \/ EqListAllMultisigs
    \/ \E id \in EqIds : EqGetProposal(id)
    \/ \E a \in EqWallets, f \in {NoFilter, "pending"} : EqListProposals(a, f)
    \/ \E user \in EqUsers, f \in {NoFilter, "pending"} : EqListProposalsByUser(user, f)

SpecEquiv == InitEquiv /\ [][NextEquiv]_vars

-----------------------------------------------------------------------------
(* SpecWire: the connections of the joiners to the bootstrap peer. Both sides run
   the swarm's 'connection' handler: store.replicate(conn), then the REGISTER_NODE
   message is written, then conn.once('data') is set up. The replication protocol
   and the registration share the connection; a conn.write() arrives as one chunk,
   in the order written. *)

InitWire == Init /\ variant = "safe"

\* chunks the replication protocol writes on a connection after the registration
MaxWireChunks == 2

\* chunks store.replicate(conn) writes before it returns, that is before
\* _sendRegistration(conn) runs
SyncWrites == {0, 1}

ReplicationBytes == Chunk("replication", "-")

\* _sendRegistration: JSON.stringify of {type: 'REGISTER_NODE', nodeId, writerKey}
RegisterNode(q) == Chunk("REGISTER_NODE", q)

\* JSON.parse(data.toString()) throws on bytes of the replication protocol
JsonParses(chunk) == chunk.kind # "replication"

\* swarm.on('connection') at the joiner q and at the bootstrap: q's
\* store.replicate(conn) writes `first` chunks, then q writes its registration;
\* the bootstrap sets up its one-shot handler
WireConnect(q, first) ==
    /\ ~net[q].open
    /\ net' = [net EXCEPT ![q] =
                   [open |-> TRUE,
                    sent |-> [i \in 1..first |-> ReplicationBytes] \o <<RegisterNode(q)>>,
                    read |-> 0, handler |-> "armed", got |-> NoChunk, fed |-> {}]]
    /\ UNCHANGED <<protoVars, createVars, repVars, memVars, capVars, ownVars, pollVars, eqVars>>

\* store.replicate(conn) at q goes on writing on the connection
WireReplicate(q) ==
    /\ net[q].open
    /\ Len(net[q].sent) <= MaxWireChunks
    /\ net' = [net EXCEPT ![q].sent = Append(@, ReplicationBytes)]
    /\ UNCHANGED <<protoVars, createVars, repVars, memVars, capVars, ownVars, pollVars, eqVars>>

\* the bootstrap's connection emits 'data' with the next chunk, to every listener:
\* the replication protocol that store.replicate(conn) attached is handed it, and
\* an armed one-shot handler is called with it and is gone. A chunk that parses as
\* REGISTER_NODE makes the bootstrap (writable, no bootstrap key) call _addWriter,
\* a chunk that does not parse is logged and dropped.
WireData(q) ==
    /\ net[q].open
    /\ net[q].read < Len(net[q].sent)
    /\ LET chunk == net[q].sent[net[q].read + 1]
           called == net[q].handler = "armed"
       IN  /\ net' = [net EXCEPT ![q].read = @ + 1,
                                 ![q].handler = IF called THEN "spent" ELSE @,
                                 ![q].got = IF called THEN chunk ELSE @,
                                 ![q].fed = @ \cup {chunk.kind}]
           /\ IF /\ called
                 /\ JsonParses(chunk)
                 /\ chunk.kind = "REGISTER_NODE"
                 /\ Writable(rep.base[Bootstrap], Bootstrap)
                 /\ ~HasBootstrapKey(Bootstrap)
              THEN rep' = AppendTo(rep, Bootstrap, AddWriterOp(chunk.nodeId))
              ELSE UNCHANGED rep
    /\ UNCHANGED <<protoVars, createVars, memVars, capVars, ownVars, pollVars, eqVars>>

NextWire ==
    \/ \E q \in Joiners, first \in SyncWrites : WireConnect(q, first)
    \/ \E q \in Joiners : WireReplicate(q)
    \/ \E q \in Joiners : WireData(q)

SpecWire == InitWire /\ [][NextWire]_vars

-----------------------------------------------------------------------------
(* Properties of Spec *)

(* C1: the threshold gate. execute(id), called by any manager, gets past its
   signature-count check to the broadcast step only when the proposal it read
   carries at least as many signatures as the threshold of the proposal's wallet.
   BitcoinMultisig.execute has no initialisation guard and compares against
   this.threshold, which is null on a manager that never ran create()/import(). *)
C1_ThresholdGate ==
    \A m \in Signers :
        pc[m] = "exec" =>
            Len(snap[m].signatures) >= AddrThreshold(snap[m].multisigAddress)

(* C2: proposal status is monotone. Once the stored status of a proposal is not
   pending, no step of any process changes it. *)
C2_StatusMonotone ==
    [][\A id \in DOMAIN proposals :
          proposals[id].status # "pending" =>
              /\ id \in DOMAIN proposals'
              /\ proposals'[id].status = proposals[id].status]_vars

(* C3: the 2-of-2 lifecycle. In the wallet with owners [A, B] and threshold 2:
   after A.propose(tx) the stored proposal has signatures [A] and status pending;
   B.sign(id) on that proposal is accepted and leaves signatures [A, B] with status
   pending; A.execute(id) on that proposal is accepted by the checks and by the
   chain, and when the transaction succeeds the status becomes executed and the
   result is a success carrying the txHash. *)
C3_Lifecycle ==
    [][LET w == DeriveAddress(<<"A", "B">>, 2)
          AfterPropose ==
              (res.op = "propose" /\ res.m = "A" /\ res.id.w = w) =>
                  /\ res.id \in DOMAIN proposals
                  /\ proposals[res.id].signatures = <<"A">>
                  /\ proposals[res.id].status = "pending"
          Accepted ==
              \A id \in DOMAIN proposals :
                  (proposals[id].multisigAddress = w /\ proposals[id].status = "pending") =>
                      /\ (proposals[id].signatures = <<"A">> /\ mgr["B"].address = w)
                            => SignOutcome(variant, mgr["B"], proposals[id], "B") = "reading"
                      /\ (proposals[id].signatures = <<"A", "B">> /\ mgr["A"].address = w)
                            => /\ ExecOutcome(variant, mgr["A"], proposals[id]) = "reading"
                               /\ ChainAccepts(w, proposals[id].signatures)
          SignStep ==
              (/\ SignWrite("B")
               /\ snap["B"].multisigAddress = w
               /\ proposals[snap["B"].id] = snap["B"]
               /\ snap["B"].signatures = <<"A">>
               /\ snap["B"].status = "pending") =>
                  /\ proposals'[snap["B"].id].signatures = <<"A", "B">>
                  /\ proposals'[snap["B"].id].status = "pending"
                  /\ res' = Result("sign", "B", snap["B"].id, "signed")
          ExecStep ==
              (/\ ExecFinish("A", "ok")
               /\ snap["A"].multisigAddress = w
               /\ proposals[snap["A"].id] = snap["A"]
               /\ snap["A"].signatures = <<"A", "B">>) =>
                  /\ proposals'[snap["A"].id].status = "executed"
                  /\ proposals'[snap["A"].id].signatures = <<"A", "B">>
                  /\ snap["A"].id \in chain'.sent
                  /\ res' = Result("execute", "A", snap["A"].id, "success")
      IN  /\ AfterPropose /\ Accepted
          /\ (AfterPropose /\ Accepted)'
          /\ SignStep /\ ExecStep]_vars

C3_Witness ==
    \E id \in DOMAIN proposals :
        /\ proposals[id].multisigAddress = DeriveAddress(<<"A", "B">>, 2)
        /\ proposals[id].signatures = <<"A", "B">>
        /\ proposals[id].status = "executed"
        /\ mgr["A"].address = proposals[id].multisigAddress
        /\ mgr["B"].address = proposals[id].multisigAddress
        /\ res = Result("execute", "A", id, "success")

(* C4: in the wallet with owners [A, B] and threshold 2, while only A has signed,
   execute(id) of B's manager (bound to that wallet) ends in the
   insufficient-signatures error; and an execute() that ends in that error leaves
   the stored proposals, the wallet records and the chain (no broadcast) as they
   were. *)
C4_ExecuteBeforeSigning ==
    [][LET w == DeriveAddress(<<"A", "B">>, 2)
          Refused ==
              \A id \in DOMAIN proposals :
                  (/\ proposals[id].multisigAddress = w
                   /\ proposals[id].signatures = <<"A">>
                   /\ proposals[id].status = "pending"
                   /\ mgr["B"].address = w) =>
                      ExecOutcome(variant, mgr["B"], proposals[id]) = "InsufficientSignatures"
          Untouched ==
              (res'.op = "execute" /\ res'.out = "InsufficientSignatures") =>
                  UNCHANGED <<proposals, multisigs, chain, mgr>>
      IN  Refused /\ (Refused)' /\ Untouched]_vars

C4_Witness ==
    \E id \in DOMAIN proposals :
        /\ proposals[id].multisigAddress = DeriveAddress(<<"A", "B">>, 2)
        /\ proposals[id].signatures = <<"A">>
        /\ proposals[id].status = "pending"
        /\ mgr["B"].address = proposals[id].multisigAddress
        /\ res = Result("execute", "B", id, "InsufficientSignatures")
        /\ chain.sent = {}

(* C5: no signature is lost by concurrent sign() calls. When signer m is inside
   sign(id) on a pending proposal and another signer b, who read the same record,
   has just completed its sign(id) (the stored record is the one m read plus b's
   signature), both being owners whose managers are bound to the proposal's wallet,
   then after m's write the stored signatures hold b's, m's and every signature that
   was there before. *)
C5_ConcurrentSign ==
    [][\A m \in Signers : \A b \in Signers \ {m} :
          (/\ pc[m] = "sign" /\ pc'[m] = "idle"
           /\ snap[m].status = "pending"
           /\ \A s \in {m, b} : /\ mgr[s] = Bound(snap[m].multisigAddress,
                                                  AddrOwners(snap[m].multisigAddress),
                                                  AddrThreshold(snap[m].multisigAddress))
                                 /\ s \in Range(mgr[s].owners)
           /\ res = Result("sign", b, snap[m].id, "signed")
           /\ proposals[snap[m].id] = SignedProposal(snap[m], b)) =>
              Range(snap[m].signatures) \cup {b, m}
                  \subseteq Range(proposals'[snap[m].id].signatures)]_vars

(* C6: in every reachable state every stored proposal has at most one signatures
   entry per signer. *)
C6_OneEntryPerSigner ==
    \A id \in DOMAIN proposals, s \in Signers :
        Count(proposals[id].signatures, s) <= 1

(* C7: sign(id) twice by the same signer. Right after a sign(id) of signer m has
   written, the proposal holds exactly one entry of m and a second sign(id) of m
   ends as a silent return or as the already-signed error; and a sign() that ends
   either way leaves the store as it was. *)
C7_SignTwice ==
    [][LET AfterFirst ==
              (res.op = "sign" /\ res.out = "signed") =>
                  /\ res.id \in DOMAIN proposals
                  /\ Count(proposals[res.id].signatures, res.m) = 1
                  /\ SignOutcome(variant, mgr[res.m], proposals[res.id], res.m)
                         \in {"noop", "AlreadySigned"}
          Second ==
              (res'.op = "sign" /\ res'.out \in {"noop", "AlreadySigned"}) =>
                  /\ UNCHANGED <<proposals, multisigs, chain>>
                  /\ Count(proposals[res'.id].signatures, res'.m) >= 1
      IN  AfterFirst /\ (AfterFirst)' /\ Second]_vars

C7_Witness ==
    /\ res.op = "sign"
    /\ res.m = "B"
    /\ res.out \in {"noop", "AlreadySigned"}
    /\ res.id \in DOMAIN proposals
    /\ proposals[res.id].signatures = <<"A", "B">>

(* C10: the proposal id is a function of the unsigned payload alone. The id that
   propose() returned is the id any other signer proposing the same unsigned payload
   (same wallet, same intent, same nonce) obtains. *)
C10_IdOfPayload ==
    (res.op = "propose" /\ res.id \in DOMAIN proposals) =>
        LET p == proposals[res.id]
        IN  \A s \in Signers :
                ProposalId(variant, UnsignedPayload(p.multisigAddress, p.tx, p.nonce), s)
                    = res.id

(* C11: proposals of the same payload merge. When signer b has proposed a payload
   (the stored proposal is the one b's propose() saved, pending) and another signer m,
   whose propose() of the same intent at the same nonce yields the same id, proposes
   it as well, the stored proposal of that id then carries the signatures of both b
   and m. *)
C11_ProposeMerges ==
    [][\A m \in Signers : \A b \in Signers \ {m} : \A tx \in Intents :
          LET a == mgr[m].address
              mine == NewProposal(variant, a, tx, chain.nonce[a], m)
              theirs == NewProposal(variant, a, tx, chain.nonce[a], b)
          IN  (/\ Propose(m, tx)
               /\ a # NoAddr
               /\ mine.id = theirs.id
               /\ mine.id \in DOMAIN proposals
               /\ proposals[mine.id] = theirs) =>
                  {b, m} \subseteq Range(proposals'[mine.id].signatures)]_vars

(* C12: execute(id) of an initialised manager on a proposal whose stored status is
   not pending ends in the already-finalized error, broadcasts nothing and leaves the
   stored proposals, the wallet records and the chain as they were. *)
C12_ExecuteFinalized ==
    [][\A m \in Signers : \A id \in DOMAIN proposals :
          (/\ ExecRead(m, id)
           /\ proposals[id].status # "pending"
           /\ InitGuardOk(variant, mgr[m])) =>
              /\ res' = Result("execute", m, id, "AlreadyFinalized")
              /\ pc'[m] = "idle"
              /\ UNCHANGED <<proposals, multisigs, chain, mgr>>]_vars

C12_Witness ==
    /\ res.op = "execute"
    /\ res.out = "AlreadyFinalized"
    /\ res.id \in DOMAIN proposals
    /\ proposals[res.id].status = "executed"
    /\ mgr[res.m].ready

(* C13: a failed broadcast. When the broadcast step of execute(id) throws, the error
   reaches the caller, the stored proposals (status and signatures), the wallet
   records and the chain stay as they were, and when the stored proposal is still
   the pending one execute() read, the same manager's execute(id) passes every check
   again on the signatures already collected. *)
C13_BroadcastError ==
    [][\A m \in Signers :
          ExecFinish(m, "throw") =>
              /\ res' = Result("execute", m, snap[m].id, "BroadcastError")
              /\ UNCHANGED <<proposals, multisigs, chain, mgr>>
              /\ proposals[snap[m].id] = snap[m] =>
                    /\ proposals'[snap[m].id].status = "pending"
                    /\ proposals'[snap[m].id].signatures = snap[m].signatures
                    /\ ExecOutcome(variant, mgr'[m], proposals'[snap[m].id]) = "reading"]_vars

C13_Witness ==
    /\ res.op = "execute"
    /\ res.out = "BroadcastError"
    /\ res.id \in DOMAIN proposals
    /\ proposals[res.id].status = "pending"
    /\ proposals[res.id].signatures = <<"A", "B">>
    /\ mgr[res.m].address = proposals[res.id].multisigAddress
    /\ chain.sent = {}

(* C14: the status execute() leaves. When the broadcast transaction succeeds
   on-chain the stored status becomes executed; when the chain reports an on-chain
   failure (revert) the stored status becomes failed, never executed and never
   pending. *)
C14_ExecutedOrFailed ==
    [][\A m \in Signers :
          /\ ExecFinish(m, "ok") => proposals'[snap[m].id].status = "executed"
          /\ ExecFinish(m, "revert") => proposals'[snap[m].id].status = "failed"]_vars

(* C28: signature growth is append-only. Across every step (propose, sign,
   execute, addSignature, updateProposalStatus, by any manager) every stored
   proposal stays stored and its earlier signatures list is a prefix of its later
   one: no entry is removed or replaced. *)
C28_AppendOnly ==
    [][\A id \in DOMAIN proposals :
          /\ id \in DOMAIN proposals'
          /\ Len(proposals[id].signatures) <= Len(proposals'[id].signatures)
          /\ SubSeq(proposals'[id].signatures, 1, Len(proposals[id].signatures))
                = proposals[id].signatures]_vars

(* C32: the threshold counts distinct owners. A manager is at the broadcast step
   of execute(id) only when the proposal it read carries signatures of at least
   threshold different signers that are owners of the proposal's wallet; entries
   of signers that are not owners and repeated entries of one signer do not
   count. *)
C32_DistinctOwnerSignatures ==
    \A m \in Signers :
        pc[m] = "exec" =>
            Cardinality(Range(snap[m].signatures)
                            \cap Range(AddrOwners(snap[m].multisigAddress)))
                >= AddrThreshold(snap[m].multisigAddress)

(* C33: signatures are frozen once the status has left pending. No step of any
   process changes the signatures list of a stored proposal whose status is not
   pending; in particular sign(id) on such a proposal writes nothing. *)
C33_SignaturesFrozen ==
    [][\A id \in DOMAIN proposals :
          proposals[id].status # "pending" =>
              /\ id \in DOMAIN proposals'
              /\ proposals'[id].signatures = proposals[id].signatures]_vars

(* C34: one execute() per proposal at the broadcast step. No two managers are
   past the status and threshold checks of execute(id) for the same proposal id
   at the same time: the second caller is refused, it does not broadcast the
   transaction again. *)
C34_OneExecutePerProposal ==
    \A m, n \in Signers :
        (m # n /\ pc[m] = "exec" /\ pc[n] = "exec") => snap[m].id # snap[n].id

(* C35: an uninitialised manager gets nowhere. A manager that has not completed
   create() or import() never stands inside sign(id) past its checks, about to
   write a signature, nor inside execute(id) past its checks, about to broadcast:
   on such a manager both calls end in an error at the checks, in every chain
   variant. BitcoinMultisig.sign and BitcoinMultisig.execute carry no
   initialisation guard. *)
C35_UninitialisedManagerRefused ==
    \A m \in Signers : pc[m] \in {"sign", "exec"} => mgr[m].ready

(* C29: execute(id) submits the payload that was signed. In every execute() that
   reaches its broadcast step, the payload handed to the chain with the collected
   signatures is the payload of the persisted proposal parameters, the one
   propose() and sign() signed, whatever the wallet's nonce has become since. *)
C29_ExecutesSignedPayload ==
    [][\A m \in Signers : \A outcome \in ChainOutcomes(variant) :
          ExecFinish(m, outcome) =>
              ExecPayload(variant, snap[m], chain.nonce[snap[m].multisigAddress])
                  = SignedPayload(snap[m])]_vars

\* a stored proposal as execute() leaves it: updateProposalStatus has assigned the
\* execution metadata, gasUsed being undefined or a decimal string
WithMetadata(p, gasUsed) ==
    IF p.status = "pending" THEN p
    ELSE [k \in DOMAIN p \cup {"gasUsed"} |-> IF k = "gasUsed" THEN gasUsed ELSE p[k]]

\* two records agree on every property
SameRecord(a, b) == \A k \in Range(ProposalKeys) : Property(a, k) = Property(b, k)

\* importProposal(text) into a new replicated store (the peer that creates it)
AutobaseImportFresh(text) ==
    AppendTo(NoReplication, Bootstrap, SaveProposalOp(JsonParse(text))).base[Bootstrap]

(* C25: export / import round trip. For every stored proposal, with or without
   execution metadata, importing the text exportProposal(id) returns into a fresh
   store leaves under the same id a record that agrees with the original on every
   property (id, intent, payload parameters, signatures in order, status,
   metadata); for the memory store and for the replicated store. *)
C25_RoundTrip ==
    \A id \in DOMAIN proposals : \A g \in {Undefined, "21000"} :
        LET original == WithMetadata(proposals[id], g)
            source == MemSaveProposal(<<>>, original)
            fresh == MemImportProposal(<<>>, MemExportProposal(source, id))
            peer == AppendTo(NoReplication, Bootstrap, SaveProposalOp(original))
            joined == AutobaseImportFresh(
                        AutobaseExportProposal(peer.base[Bootstrap], id))
        IN  /\ SameRecord(MemGetProposal(fresh, id), original)
            /\ SameRecord(AutobaseGetProposal(joined, id), original)

\* an executed proposal with two signatures is stored, and its export has a member
\* for every key but the undefined one
C25_Witness ==
    \E id \in DOMAIN proposals :
        /\ proposals[id].status = "executed"
        /\ Len(proposals[id].signatures) = 2
        /\ Len(JsonStringify(WithMetadata(proposals[id], Undefined)))
                = Len(ProposalKeys) - 1
        /\ Len(JsonStringify(WithMetadata(proposals[id], "21000"))) = Len(ProposalKeys)

-----------------------------------------------------------------------------
(* Properties of SpecAsync *)

(* C15: a proposal that execute() left in status submitted does not stay submitted
   for ever: once the chain has the confirmation, its status becomes executed or
   failed. *)
C15_SubmittedResolves ==
    \A id \in AsyncIds :
        (id \in DOMAIN proposals /\ proposals[id].status = "submitted")
            ~> (id \in DOMAIN proposals /\ proposals[id].status \in {"executed", "failed"})

-----------------------------------------------------------------------------
(* Properties of SpecStore *)

\* peer p has every entry of every log
Synced(p) == \A w \in Peers : rep.seen[p][w] = Len(rep.logs[w])

\* the entry a pair <<writer, index>> names
EntryAt(e) == rep.logs[e[1]][e[2]]

(* C16: convergence. Two peers that both have the full set of log entries hold
   equal views (the same record under every wallet and proposal key), whatever
   order the entries reached them in. *)
C16_Convergence ==
    \A p \in Peers : \A q \in Peers :
        (Synced(p) /\ Synced(q)) => rep.base[p].view = rep.base[q].view

C16_Witness ==
    /\ Synced("A") /\ Synced("B")
    /\ Len(rep.logs["A"]) = 2
    /\ Len(rep.logs["B"]) = 1
    /\ rep.logs["B"][1].clock["A"] = 1
    /\ StoreId \in DOMAIN rep.base["B"].view.proposals
    /\ rep.base["B"].view.proposals[StoreId].signatures = <<"A", "B">>

(* C17: every operation type is idempotent under replay. Applying the same log
   entry twice in a row to the view of any peer gives the view (and the writers)
   that applying it once gives. *)
C17_Idempotent ==
    \A p \in Peers : \A op \in Ops :
        LET v == rep.base[p].view
            ws == rep.base[p].writers
        IN  /\ HandleOperation(HandleOperation(v, op), op) = HandleOperation(v, op)
            /\ HandleWriters(HandleWriters(ws, op), op) = HandleWriters(ws, op)

(* C18: two ADD_SIGNATURE entries for the same existing proposal, from different
   signers, appended concurrently: in either order of the two the resulting
   signatures list holds both signers, and no signer more than once. *)
C18_ConcurrentAddSignature ==
    \A p \in Peers : \A s1 \in Signers : \A s2 \in Signers \ {s1} :
        LET v == rep.base[p].view
            merged == HandleOperation(HandleOperation(v, AddSignatureOp(StoreId, s1)),
                                      AddSignatureOp(StoreId, s2))
        IN  StoreId \in DOMAIN v.proposals =>
                /\ {s1, s2} \subseteq Range(merged.proposals[StoreId].signatures)
                /\ \A s \in Signers : Count(merged.proposals[StoreId].signatures, s) <= 1

(* C19: writer admission safety. Every entry a peer has applied to its view was
   appended by the bootstrap writer or by a peer named in an ADD_WRITER entry
   applied before it; and every peer other than the bootstrap that has appended
   anything had an ADD_WRITER entry naming it when it first appended. *)
C19_WriterAdmission ==
    /\ \A p \in Peers : \A i \in DOMAIN rep.base[p].applied :
          LET w == rep.base[p].applied[i][1]
          IN  \/ w = Bootstrap
              \/ \E j \in 1..(i - 1) :
                    EntryAt(rep.base[p].applied[j]).op = AddWriterOp(w)
    /\ \A w \in Peers \ {Bootstrap} :
          Len(rep.logs[w]) > 0 =>
              \E u \in Peers : \E k \in 1..Len(rep.logs[u]) :
                  /\ rep.logs[u][k].op = AddWriterOp(w)
                  /\ k <= rep.logs[w][1].clock[u]

C19_Witness ==
    /\ Len(rep.base["A"].applied) = 3
    /\ rep.base["A"].applied[3][1] = "B"
    /\ Len(rep.logs["C"]) = 0
    /\ "C" \notin rep.base["C"].writers
    /\ {"B", "C"} \in rep.links

(* C20: the writer admission protocol. Whenever the registration message of a new
   peer (one that is not a writer yet) is read by a peer that is itself a writer,
   bootstrap or not, the reading peer appends an ADD_WRITER entry naming the new
   peer. *)
C20_AdmissionProtocol ==
    [][\A q \in Peers : \A p \in Peers :
          (/\ Register(q, p)
           /\ Writable(rep.base[q], q)
           /\ ~Writable(rep.base[q], p)) =>
              rep'.logs[q] = Append(rep.logs[q], Entry(q, AddWriterOp(p), rep.seen[q]))]_vars

(* C23: read-after-write within one process. In the memory store, getProposal(id)
   right after saveProposal, addSignature or updateProposalStatus on a stored
   proposal returns the record with that write in it. In the replicated store,
   when such a call of a writable peer returns, getProposal(id) at the same peer
   returns the record the operation produces from what the peer read before. *)
C23_ReadAfterWrite ==
    [][/\ \A q \in Peers, s \in Signers :
            LET st == rep.base[q].view.proposals
            IN  /\ MemGetProposal(MemSaveProposal(st, StoreProposal(s)), StoreId)
                        = StoreProposal(s)
                /\ StoreId \in DOMAIN st =>
                    /\ MemGetProposal(MemAddSignature(st, StoreId, s), StoreId)
                            = [st[StoreId] EXCEPT !.signatures = Append(@, s)]
                    /\ MemGetProposal(MemUpdateProposalStatus(st, StoreId, "executed"),
                                      StoreId)
                            = [st[StoreId] EXCEPT !.status = "executed"]
       /\ \A q \in Peers :
            LET before == AutobaseGetProposal(rep.base[q], StoreId)
                after == AutobaseGetProposal(rep'.base[q], StoreId)
            IN  Writable(rep.base[q], q) =>
                /\ AutobaseSaveProposal(q, StoreProposal(q)) => after = StoreProposal(q)
                /\ (before # NoProposal /\ AutobaseAddSignature(q, StoreId, q))
                        => after = [before EXCEPT !.signatures = Append(@, q)]
                /\ (before # NoProposal
                        /\ AutobaseUpdateProposalStatus(q, StoreId, "executed"))
                        => after = [before EXCEPT !.status = "executed"]]_vars

\* B, admitted as a writer, has appended its signature to the proposal A saved, and
\* B's own view shows the proposal with the signature last
C23_Witness ==
    LET p == AutobaseGetProposal(rep.base["B"], StoreId)
    IN  /\ Len(rep.logs["B"]) >= 1
        /\ rep.logs["B"][1].op = AddSignatureOp(StoreId, "B")
        /\ p # NoProposal
        /\ p.signatures = <<"A", "B">>

-----------------------------------------------------------------------------
(* Properties of SpecNet *)

\* writer w has appended its k-th entry
Appended(w, k) == Len(rep.logs[w]) >= k

\* every peer has applied an ADD_WRITER entry for w
AdmittedEverywhere(w) == \A q \in Peers : Writable(rep.base[q], w)

\* p has applied the k-th entry of w to its view
Applied(p, w, k) == <<w, k>> \in Range(rep.base[p].applied)

\* the connections from p to q and from q to w are open (q = w: p is connected to
\* w itself; q = p likewise)
Via(p, q, w) ==
    /\ (p = q \/ {p, q} \in rep.links)
    /\ (q = w \/ {q, w} \in rep.links)

(* C21: a new peer's entries reach everybody. Once every peer has applied the
   ADD_WRITER entry of a peer w that joined with a bootstrap key, every entry w has
   appended is eventually applied to the view of every peer p that stays
   connected to w, directly or through the third peer: it cannot be for ever that
   the entry is missing from p's view while the connections are up. *)
C21_AdmittedEntriesSpread ==
    \A w \in Peers \ {Bootstrap}, p \in Peers, q \in Peers, k \in 1..MaxNetEntries :
        []<>(\/ ~(AdmittedEverywhere(w) /\ Appended(w, k))
             \/ Applied(p, w, k)
             \/ ~Via(p, q, w))

\* B was admitted everywhere, appended a proposal entry while C was connected to it
\* through A only, and C has applied the entry
C21_Witness ==
    /\ AdmittedEverywhere("B")
    /\ Appended("B", 1)
    /\ rep.logs["B"][1].op.type # "ADD_WRITER"
    /\ Via("C", "A", "B")
    /\ ~Via("C", "B", "B")
    /\ Applied("C", "B", 1)

\* q has no open connection
Isolated(q) == \A p \in Peers : {p, q} \notin rep.links

\* the operations the managers' propose(), sign() and execute() append at peer q
LocalOps(q) ==
    {SaveProposalOp(StoreProposal(q)), AddSignatureOp(StoreId, q),
     UpdateStatusOp(StoreId, "executed")}

(* C22: a transport disconnect is not fatal. A storage call (saveProposal,
   addSignature, updateProposalStatus) of a writable peer that has no open
   connection still appends its entry to the local log and the peer's own view
   shows the operation applied; and an entry of a writable peer w cannot stay
   missing for ever from the view of a peer p while the connection between p and
   w is up (again). *)
C22_DisconnectNonFatal ==
    /\ [][\A q \in Peers : \A op \in LocalOps(q) :
            (Isolated(q) /\ Writable(rep.base[q], q) /\ StoreCall(q, op))
                => /\ Len(rep'.logs[q]) = Len(rep.logs[q]) + 1
                   /\ rep'.logs[q][Len(rep'.logs[q])].op = op
                   /\ rep'.base[q].view = HandleOperation(rep.base[q].view, op)]_vars
    /\ \A w \in Peers, p \in Peers, k \in 1..MaxNetEntries :
        []<>(\/ ~(Appended(w, k) /\ Writable(rep.base[w], w))
             \/ Applied(p, w, k)
             \/ {p, w} \notin rep.links)

\* B, admitted and then cut off from everybody, holds an entry of its own in its
\* log and view that no other peer has received yet
C22_Witness ==
    /\ Isolated("B")
    /\ Appended("B", 1)
    /\ Applied("B", "B", 1)
    /\ \A p \in Peers \ {"B"} : rep.seen[p]["B"] = 0

-----------------------------------------------------------------------------
(* Properties of SpecMem *)

(* C24: value semantics of the memory store. When a caller mutates in place an
   object it passed to saveProposal / saveMultisigInfo / addSignature, or one it
   got from getProposal / getMultisigInfo / listProposals, or anything nested in
   such an object (a signatures entry, the transaction, the owners array), what
   the store returns afterwards is what it returned before. *)
C24_ValueSemantics ==
    [][\A r \in Objects : Mutate(r) => StoreReturns(mem') = StoreReturns(mem)]_vars

-----------------------------------------------------------------------------
(* Properties of SpecCap *)

(* C26: the capability check fails fast. A manager that got through its
   constructor has a storage with every method its operations call, and no call
   on it ends because a storage method is missing. *)
C26_FailFast ==
    cap.state = "constructed" =>
        /\ \A op \in ManagerOps : StorageCalls(op) \subseteq cap.storage
        /\ cap.outcome # "is not a function"

-----------------------------------------------------------------------------
(* Properties of SpecImport *)

(* C27: import(address, proof) and the address. When the owners, threshold and
   salt (or the witness script) supplied or stored for the wallet derive an
   address other than the requested one, import() fails with an address-mismatch
   error; a successful import() leaves the manager bound to the requested address,
   with owners and threshold that derive it. *)
C27_ImportAddress ==
    cin.op = "import" =>
        LET derived == PredictAddress(cin.owners, cin.threshold, cin.salt)
        IN  /\ derived # cin.address => cout.out = "AddressMismatch"
            /\ cout.out = "ok" =>
                /\ cout.mgr.address = cin.address
                /\ derived = cin.address

-----------------------------------------------------------------------------
(* Properties of SpecOwners *)

OwnersOps(m) ==
    \E o \in Signers, t \in OwnerThresholds :
        AddOwner(m, o, t) \/ RemoveOwner(m, o, t) \/ ChangeThreshold(m, t)

(* C30: owners and threshold change only through an ownership-change proposal.
   addOwner, removeOwner and changeThreshold leave the stored wallet record and
   the wallet on chain as they are. On a Safe manager a call that goes through
   stores one pending proposal that names the call and carries the caller's
   signature alone, and leaves every other stored proposal as it is; a refused call
   stores nothing. On the classes that inherit the operations from MultisigManager
   every call fails and nothing changes. *)
C30_OwnersChangeByProposal ==
    [][\A m \in Signers \cap {own'.by} :
          OwnersOps(m) =>
              /\ own'.multisigs = own.multisigs
              /\ own'.wallet = own.wallet
              /\ IF own.v \in {"safe", "safe4337"}
                 THEN IF own'.out = "ok"
                      THEN \E id \in DOMAIN own'.proposals :
                              /\ own'.proposals[id].status = "pending"
                              /\ own'.proposals[id].signatures = <<m>>
                              /\ own'.proposals[id].tx \in
                                    {"addOwner", "removeOwner", "changeThreshold"}
                              /\ DOMAIN own'.proposals = DOMAIN own.proposals \cup {id}
                              /\ \A i \in DOMAIN own.proposals \ {id} :
                                    own'.proposals[i] = own.proposals[i]
                      ELSE own'.proposals = own.proposals
                 ELSE /\ own'.out = "Immutable"
                      /\ own'.proposals = own.proposals
                      /\ own'.mgr = own.mgr]_vars

\* after an executed addOwner the wallet has three owners on chain; a later
\* removeOwner is stored as a second, pending proposal while the stored wallet
\* record still has the owners and the threshold it was created with
C30_Witness ==
    /\ own.v = "safe"
    /\ own.out = "ok"
    /\ Len(own.wallet.owners) = 3
    /\ own.multisigs[OwnAddress].owners = FirstOwners
    /\ own.multisigs[OwnAddress].threshold = FirstThreshold
    /\ \E i, j \in DOMAIN own.proposals :
          /\ own.proposals[i].status = "executed" /\ own.proposals[i].tx = "addOwner"
          /\ own.proposals[j].status = "pending" /\ own.proposals[j].tx = "removeOwner"
          /\ Len(own.proposals[j].signatures) = 1

(* C38: every ownership-change proposal carries a threshold in range. A proposal
   stored by addOwner, removeOwner or changeThreshold of a Safe or Safe 4337
   manager carries a new threshold t' with 1 <= t' <= the number of owners the
   wallet has once the change is applied. removeOwner lowers a threshold above the
   owners that remain to their number instead of refusing, and refuses to remove
   the last owner; a call whose threshold is out of range is refused and stores no
   proposal. *)
C38_ThresholdInRange ==
    [][\A m \in Signers \cap {own'.by} :
          own.v \in {"safe", "safe4337"} =>
              /\ \A id \in DOMAIN own'.proposals \ DOMAIN own.proposals :
                    LET p == own'.proposals[id]
                        after == OwnersAfter(p.tx, own.wallet.owners)
                    IN  /\ after >= 1
                        /\ 1 <= p.data.threshold
                        /\ p.data.threshold <= after
              /\ (own'.out # "ok" /\ own'.proposals # own.proposals) => ~OwnersOps(m)
              /\ \A o \in Range(own.wallet.owners), t \in OwnerThresholds :
                    (/\ own.mgr[m].ready
                     /\ Len(own.wallet.owners) > 1
                     /\ t >= 1
                     /\ RemoveOwner(m, o, t)) =>
                        /\ own'.out = "ok"
                        /\ \E id \in DOMAIN own'.proposals :
                              /\ own'.proposals[id].tx = "removeOwner"
                              /\ own'.proposals[id].data =
                                    OwnerTx(o, IF t > Len(own.wallet.owners) - 1
                                               THEN Len(own.wallet.owners) - 1 ELSE t)]_vars

\* a Safe 4337 manager has stored a removeOwner proposal for a wallet of two
\* owners: it carries threshold 1, lowered from what the call gave
C38_Witness ==
    /\ own.v = "safe4337"
    /\ own.out = "ok"
    /\ Len(own.wallet.owners) = 2
    /\ \E id \in DOMAIN own.proposals :
          /\ own.proposals[id].tx = "removeOwner"
          /\ own.proposals[id].status = "pending"
          /\ own.proposals[id].id.n = own.wallet.nonce
          /\ own.proposals[id].data.threshold = 1

-----------------------------------------------------------------------------
(* Properties of SpecPoll *)

(* C31: confirmation polling terminates. execute() never asks for the receipt more
   than 60 times; an execute() that handed the transaction to the bundler returns;
   and when it returns without a receipt it has asked 60 times, its result is the
   not-yet-confirmed one (userOpHash set, txHash null) and the proposal, where the
   manager has a storage, is recorded as submitted. *)
C31_PollingTerminates ==
    /\ [](poll.attempts <= MaxAttempts)
    /\ []((poll.pc = "returned" /\ poll.receipt = NoReceipt
                /\ poll.result # "BroadcastError") =>
            /\ poll.attempts = MaxAttempts
            /\ poll.result = "submitted"
            /\ HasStorage(poll.v) => poll.status = "submitted")
    /\ (poll.pc = "polling" ~> poll.pc = "returned")

\* sixty attempts without a receipt, and the return after them
C31_Witness ==
    /\ poll.v = "safe4337"
    /\ poll.pc = "returned"
    /\ poll.attempts = MaxAttempts
    /\ poll.receipt = NoReceipt
    /\ poll.status = "submitted"

-----------------------------------------------------------------------------
(* Properties of SpecCreate *)

(* C8: for every owners list of at least two owners and every threshold, create()
   of every manager class succeeds exactly when 1 <= threshold <= |owners| and the
   local signer is one of the owners. *)
C8_CreateIff ==
    (cin.op = "create" /\ Len(cin.owners) >= 2) =>
        (cout.out = "ok" <=>
            /\ 1 <= cin.threshold
            /\ cin.threshold <= Len(cin.owners)
            /\ cin.signer \in Range(cin.owners))

(* C9: every wallet a manager holds after a successful create() or import(), and
   every wallet record in storage, has 1 <= threshold <= |owners|. *)
C9_WalletInvariant ==
    cout.out = "ok" =>
        /\ cout.mgr # NoManager =>
              (1 <= cout.mgr.threshold /\ cout.mgr.threshold <= Len(cout.mgr.owners))
        /\ cout.info # NoInfo =>
              (1 <= cout.info.threshold /\ cout.info.threshold <= Len(cout.info.owners))

-----------------------------------------------------------------------------
(* Properties of SpecEquiv *)

(* C36: the memory store and the replicated store of a single peer are
   observationally equivalent. Given the same sequence of StorageAdapter calls,
   every call returns the same on both: the same value, or nothing on both, or a
   rejection on both; addSignature and updateProposalStatus on an unknown proposal
   id and listMultisigsByUser with an owner address in another letter case
   included. *)
C36_StoresEquivalent == eqv.out.mem = eqv.out.auto

-----------------------------------------------------------------------------
(* Properties of SpecWire *)

(* C37: the registration reaches the one-shot handler. On every connection to the
   bootstrap peer, once the once('data') handler has been called, what it was
   called with is the joiner's REGISTER_NODE message, whatever replication wrote
   on the connection and when; once the registration has been emitted, the
   handler is the one that got it; and the replication protocol is never handed
   the registration as its bytes. *)
C37_RegistrationReachesHandler ==
    \A q \in Joiners :
        /\ net[q].handler = "spent" => net[q].got = RegisterNode(q)
        /\ (\E i \in 1..net[q].read : net[q].sent[i] = RegisterNode(q)) =>
               net[q].got = RegisterNode(q)
        /\ "REGISTER_NODE" \notin net[q].fed

=============================================================================
